---- MODULE Spec2Model ----
(***************************************************************************)
(* Progressive overload engine of Lazy Training (src/src/App.jsx).         *)
(*                                                                         *)
(* JavaScript numbers are modelled as exact rationals n/d with d > 0 in    *)
(* lowest terms, strings as sequences of one-character strings.            *)
(***************************************************************************)
EXTENDS Integers, Sequences, FiniteSets, TLC

VARIABLES pv, af, ap, hl, pw,
          sp,               \* CreatePlanView importing a plan
          gm,               \* a call of callGeminiApi
          aw,               \* ActiveWorkoutView and the exercise component it shows
          now,              \* the clock read by new Date() and serverTimestamp()
          plan,             \* App state: the plan of the active profile
          store,            \* the documents of the Firestore history collection
          snapshotPending,  \* a change of the collection not yet delivered to onSnapshot
          history,          \* App state: history
          currentView,      \* App state: currentView
          activeWorkoutDay, \* App state: activeWorkoutDay
          memo,             \* DashboardView: the value of its first useMemo
          isLogging,        \* DashboardView state
          isCompleting,     \* ActiveWorkoutView state
          consoleError      \* the last message written with console.error

callVars == <<pv, af, ap, hl, pw, sp, gm, aw>>
appVars == <<now, plan, store, snapshotPending, history, currentView, activeWorkoutDay,
             memo, isLogging, isCompleting, consoleError>>
vars == <<pv, af, ap, hl, pw, sp, gm, aw, now, plan, store, snapshotPending, history, currentView,
          activeWorkoutDay, memo, isLogging, isCompleting, consoleError>>

(***************************************************************************)
(* Bounds of the model.                                                    *)
(***************************************************************************)
MaxWeek == 4          \* week numbers handed to the value projector: 1..MaxWeek
MaxHist == 8          \* longest history handed to the adherence analyzer
MaxLogWeek == 2       \* weekNumber values recorded in history entries: 1..MaxLogWeek
MaxCurrentWeek == 5   \* currentWeek values handed to the adherence analyzer
MaxDocs == 4          \* documents of the history collection seen by the listener
MaxDay == 8           \* days of the plan the application is followed through
MaxClock == 60        \* clock values handed to the schedule clock: 0..MaxClock
MaxDuration == 3      \* durationWeeks of the plans handed to the schedule clock
MaxStore == 4         \* documents of the history collection of the application
MaxCalls == 3         \* calls of onComplete followed in one workout session

(***************************************************************************)
(* JavaScript values.  A number is [n, d], a string is [s], an enumerated  *)
(* string that is only compared is [atom], undefined is [undef].           *)
(***************************************************************************)
Undefined == [undef |-> TRUE]
Str(chars) == [s |-> chars]
Atom(name) == [atom |-> name]
Linear == Atom("linear")
Percentage == Atom("percentage")

Abs(x) == IF x < 0 THEN -x ELSE x

RECURSIVE Gcd(_, _)
Gcd(a, b) == IF b = 0 THEN a ELSE Gcd(b, a % b)

Norm(n, d) ==
    LET g == Gcd(Abs(n), Abs(d))
        sg == IF d < 0 THEN -1 ELSE 1
    IN  [n |-> (sg * n) \div g, d |-> (sg * d) \div g]

R(n) == [n |-> n, d |-> 1]
Q(n, d) == Norm(n, d)

RAdd(a, b) == Norm(a.n * b.d + b.n * a.d, a.d * b.d)
RSub(a, b) == Norm(a.n * b.d - b.n * a.d, a.d * b.d)
RMul(a, b) == Norm(a.n * b.n, a.d * b.d)
RDiv(a, b) == Norm(a.n * b.d, a.d * b.n)
RLe(a, b) == a.n * b.d <= b.n * a.d
RLt(a, b) == a.n * b.d < b.n * a.d
RGe(a, b) == RLe(b, a)

\* Math.floor (\div rounds towards minus infinity)
MathFloor(a) == a.n \div a.d

\* Math.round: nearest integer, ties towards plus infinity
MathRound(a) == (2 * a.n + a.d) \div (2 * a.d)

(***************************************************************************)
(* Math.pow(x, e).  ECMAScript specifies the result as an implementation-  *)
(* approximated value; the model computes it in fixed point with PowScale  *)
(* fractional units: the integer part of the exponent by repeated          *)
(* multiplication (exact whenever the power has at most four decimals, so  *)
(* pow(x, 0) = 1 and pow(x, 1) = x), the fractional part r as              *)
(* exp(r * ln x) by the series below, for x = 1 + p with p small.          *)
(***************************************************************************)
PowScale == 10000

FxMul(a, b) == (a * b) \div PowScale

RECURSIVE FxPowInt(_, _)
FxPowInt(x, k) == IF k = 0 THEN PowScale ELSE FxMul(x, FxPowInt(x, k - 1))

\* ln(1 + p) = p - p^2/2 + p^3/3 - p^4/4
FxLn1p(p) ==
    LET p2 == FxMul(p, p)
        p3 == FxMul(p2, p)
        p4 == FxMul(p3, p)
    IN  p - (p2 \div 2) + (p3 \div 3) - (p4 \div 4)

\* exp(t) = 1 + t + t^2/2! + ... + t^5/5!
FxExp(t) ==
    LET t2 == FxMul(t, t)
        t3 == FxMul(t2, t)
        t4 == FxMul(t3, t)
        t5 == FxMul(t4, t)
    IN  PowScale + t + (t2 \div 2) + (t3 \div 6) + (t4 \div 24) + (t5 \div 120)

FxPow(x, e) ==
    LET k == MathFloor(e)
        r == RSub(e, R(k))
        ip == FxPowInt(x, k)
        fp == IF r.n = 0 THEN PowScale
              ELSE FxExp((FxLn1p(x - PowScale) * r.n) \div r.d)
    IN  FxMul(ip, fp)

MathPow(x, e) ==
    LET xs == (x.n * PowScale) \div x.d
    IN  IF e.n >= 0
        THEN Norm(FxPow(xs, e), PowScale)
        ELSE Norm(PowScale, FxPow(xs, [n |-> -e.n, d |-> e.d]))

(***************************************************************************)
(* Value projector: calculateProgressiveValue.                             *)
(***************************************************************************)
Default(x, d) == IF x = Undefined THEN d ELSE x

\* Variant: counts the current week as a progressed week.
calculateProgressiveValue_week(baseValue, weekNumber, increment, userMultiplier0, strategy0, adaptiveFactor0) ==
    LET userMultiplier == Default(userMultiplier0, R(1))
        strategy == Default(strategy0, Linear)
        adaptiveFactor == Default(adaptiveFactor0, R(1))
        weeksProgressed == weekNumber
    IN  IF strategy = Percentage
        THEN LET percentIncrease == RDiv(increment, R(100))
             IN  RMul(baseValue,
                      MathPow(RAdd(R(1), percentIncrease),
                              RMul(RMul(R(weeksProgressed), userMultiplier), adaptiveFactor)))
        ELSE RAdd(baseValue,
                  RMul(RMul(RMul(increment, R(weeksProgressed)), userMultiplier), adaptiveFactor))

\* Variant: the linear branch leaves out the adaptive factor.
calculateProgressiveValue_nofactor(baseValue, weekNumber, increment, userMultiplier0, strategy0, adaptiveFactor0) ==
    LET userMultiplier == Default(userMultiplier0, R(1))
        strategy == Default(strategy0, Linear)
        adaptiveFactor == Default(adaptiveFactor0, R(1))
        weeksProgressed == weekNumber - 1
    IN  IF strategy = Percentage
        THEN LET percentIncrease == RDiv(increment, R(100))
             IN  RMul(baseValue,
                      MathPow(RAdd(R(1), percentIncrease),
                              RMul(RMul(R(weeksProgressed), userMultiplier), adaptiveFactor)))
        ELSE RAdd(baseValue,
                  RMul(RMul(increment, R(weeksProgressed)), userMultiplier))

\* Variant: the percentage branch multiplies the rate instead of compounding it.
calculateProgressiveValue_simple(baseValue, weekNumber, increment, userMultiplier0, strategy0, adaptiveFactor0) ==
    LET userMultiplier == Default(userMultiplier0, R(1))
        strategy == Default(strategy0, Linear)
        adaptiveFactor == Default(adaptiveFactor0, R(1))
        weeksProgressed == weekNumber - 1
    IN  IF strategy = Percentage
        THEN LET percentIncrease == RDiv(increment, R(100))
             IN  RMul(baseValue,
                      RAdd(R(1), RMul(percentIncrease,
                              RMul(RMul(R(weeksProgressed), userMultiplier), adaptiveFactor))))
        ELSE RAdd(baseValue,
                  RMul(RMul(RMul(increment, R(weeksProgressed)), userMultiplier), adaptiveFactor))

calculateProgressiveValue(baseValue, weekNumber, increment, userMultiplier0, strategy0, adaptiveFactor0) ==
    LET userMultiplier == Default(userMultiplier0, R(1))
        strategy == Default(strategy0, Linear)
        adaptiveFactor == Default(adaptiveFactor0, R(1))
        weeksProgressed == weekNumber - 1
    IN  IF strategy = Percentage
        THEN LET percentIncrease == RDiv(increment, R(100))
             IN  RMul(baseValue,
                      MathPow(RAdd(R(1), percentIncrease),
                              RMul(RMul(R(weeksProgressed), userMultiplier), adaptiveFactor)))
        ELSE RAdd(baseValue,
                  RMul(RMul(RMul(increment, R(weeksProgressed)), userMultiplier), adaptiveFactor))

(***************************************************************************)
(* JavaScript objects are functions from field names to values; reading a  *)
(* field that is absent yields undefined.  The relational operators on a   *)
(* non-number operand (undefined converts to NaN) are false.               *)
(***************************************************************************)
Get(obj, k) == IF k \in DOMAIN obj THEN obj[k] ELSE Undefined
IsNum(v) == DOMAIN v = {"n", "d"}
JsGe(a, b) == IsNum(a) /\ IsNum(b) /\ RGe(a, b)

Min(a, b) == IF a <= b THEN a ELSE b

(***************************************************************************)
(* Adherence analyzer: calculateAdaptiveFactor.                            *)
(***************************************************************************)
\* Variant: the window includes the current week.
InWindow_inclusive(log, currentWeek) ==
    /\ JsGe(Get(log, "weekNumber"), R(currentWeek - 3))
    /\ JsGe(R(currentWeek), Get(log, "weekNumber"))

InWindow(log, currentWeek) ==
    /\ JsGe(Get(log, "weekNumber"), R(currentWeek - 3))
    /\ IsNum(Get(log, "weekNumber")) /\ RLt(Get(log, "weekNumber"), R(currentWeek))

\* history.filter(...)
recentWorkouts(hist, currentWeek) ==
    SelectSeq(hist, LAMBDA log : InWindow(log, currentWeek))

\* completionRate >= q, where completionRate = count / expectedWorkouts
\* (a division by zero yields Infinity, or NaN for 0 / 0)
RateGe(count, expectedWorkouts, q) ==
    IF expectedWorkouts = 0 THEN count > 0
    ELSE RGe(Q(count, expectedWorkouts), q)

\* Variant: the 0.5 boundary is exclusive.
tierOf_strict(count, expectedWorkouts) ==
    IF RateGe(count, expectedWorkouts, Q(9, 10)) THEN Q(11, 10)
    ELSE IF RateGe(count, expectedWorkouts, Q(7, 10)) THEN R(1)
    ELSE IF RateGe(count, expectedWorkouts, Q(1, 2)) /\ 2 * count # expectedWorkouts THEN Q(19, 20)
    ELSE Q(9, 10)

\* Variant: the two lowest tiers are exchanged.
tierOf_swapped(count, expectedWorkouts) ==
    IF RateGe(count, expectedWorkouts, Q(9, 10)) THEN Q(11, 10)
    ELSE IF RateGe(count, expectedWorkouts, Q(7, 10)) THEN R(1)
    ELSE IF RateGe(count, expectedWorkouts, Q(1, 2)) THEN Q(9, 10)
    ELSE Q(19, 20)

\* Variant: the two highest tiers are exchanged.
tierOf_topSwapped(count, expectedWorkouts) ==
    IF RateGe(count, expectedWorkouts, Q(9, 10)) THEN R(1)
    ELSE IF RateGe(count, expectedWorkouts, Q(7, 10)) THEN Q(11, 10)
    ELSE IF RateGe(count, expectedWorkouts, Q(1, 2)) THEN Q(19, 20)
    ELSE Q(9, 10)

tierOf(count, expectedWorkouts) ==
    IF RateGe(count, expectedWorkouts, Q(9, 10)) THEN Q(11, 10)
    ELSE IF RateGe(count, expectedWorkouts, Q(7, 10)) THEN R(1)
    ELSE IF RateGe(count, expectedWorkouts, Q(1, 2)) THEN Q(19, 20)
    ELSE Q(9, 10)

\* Variant: two qualifying entries already count as enough data.
calculateAdaptiveFactor_two(hist, currentWeek) ==
    LET recent == recentWorkouts(hist, currentWeek)
    IN  IF Len(recent) < 2 THEN R(1)
        ELSE LET weeksCovered == Min(3, currentWeek - 1)
                 expectedWorkouts == weeksCovered * 4
             IN  tierOf(Len(recent), expectedWorkouts)

calculateAdaptiveFactor(hist, currentWeek) ==
    LET recent == recentWorkouts(hist, currentWeek)
    IN  IF Len(recent) < 3 THEN R(1)
        ELSE LET weeksCovered == Min(3, currentWeek - 1)
                 expectedWorkouts == weeksCovered * 4
             IN  tierOf(Len(recent), expectedWorkouts)

(***************************************************************************)
(* Strings and conversions between numbers and strings.                    *)
(***************************************************************************)
Digits == <<"0", "1", "2", "3", "4", "5", "6", "7", "8", "9">>
IsDigit(c) == \E i \in 1..10 : Digits[i] = c

IsStr(v) == DOMAIN v = {"s"}
IsUndefined(v) == DOMAIN v = {"undef"}

Null == [null |-> TRUE]
IsNull(v) == DOMAIN v = {"null"}

\* ToBoolean: undefined, null, 0 and the empty string are falsy
Truthy(v) ==
    IF IsNum(v) THEN v.n # 0
    ELSE IF IsStr(v) THEN Len(v.s) > 0
    ELSE ~IsUndefined(v) /\ ~IsNull(v)

\* Number::toString of a non-negative integer
RECURSIVE NatToChars(_)
NatToChars(k) ==
    IF k < 10 THEN <<Digits[k + 1]>>
    ELSE NatToChars(k \div 10) \o <<Digits[(k % 10) + 1]>>

\* Number::toString of an integer
IntToChars(k) == IF k < 0 THEN <<"-">> \o NatToChars(-k) ELSE NatToChars(k)

\* Variant: the digits after the first decimal are cut off.
toFixed1_trunc(x) ==
    LET a == IF x.n < 0 THEN [n |-> -x.n, d |-> x.d] ELSE x
        n == (10 * a.n) \div a.d
        body == NatToChars(n \div 10) \o <<".">> \o <<Digits[(n % 10) + 1]>>
    IN  IF x.n < 0 THEN <<"-">> \o body ELSE body

\* Number.prototype.toFixed(1): the tenths n closest to x, the larger n when
\* two are equally close; a negative x is formatted as "-" followed by -x
toFixed1(x) ==
    LET a == IF x.n < 0 THEN [n |-> -x.n, d |-> x.d] ELSE x
        n == (20 * a.n + a.d) \div (2 * a.d)
        body == NatToChars(n \div 10) \o <<".">> \o <<Digits[(n % 10) + 1]>>
    IN  IF x.n < 0 THEN <<"-">> \o body ELSE body

\* the number of digits of cs from position i on
RECURSIVE DigitRun(_, _)
DigitRun(cs, i) ==
    IF i <= Len(cs) /\ IsDigit(cs[i]) THEN 1 + DigitRun(cs, i + 1) ELSE 0

\* the value of the digits cs[i..j]
RECURSIVE DigitsVal(_, _, _)
DigitsVal(cs, i, j) ==
    IF j < i THEN 0 ELSE 10 * DigitsVal(cs, i, j - 1) + (CHOOSE d \in 0..9 : Digits[d + 1] = cs[j])

RECURSIVE Pow10(_)
Pow10(k) == IF k = 0 THEN 1 ELSE 10 * Pow10(k - 1)

RECURSIVE SkipSpaces(_, _)
SkipSpaces(cs, i) ==
    IF i <= Len(cs) /\ cs[i] = " " THEN SkipSpaces(cs, i + 1) ELSE i

\* the decimal literal of cs that starts at position i: sign, digits, and a
\* fraction; NaN when there is no digit
ParseDecimalAt(cs, i) ==
    LET signed == i <= Len(cs) /\ cs[i] \in {"+", "-"}
        neg == signed /\ cs[i] = "-"
        b == IF signed THEN i + 1 ELSE i
        ni == DigitRun(cs, b)
        dot == b + ni <= Len(cs) /\ cs[b + ni] = "."
        nf == IF dot THEN DigitRun(cs, b + ni + 1) ELSE 0
        ip == DigitsVal(cs, b, b + ni - 1)
        fp == IF dot THEN DigitsVal(cs, b + ni + 1, b + ni + nf) ELSE 0
        mag == Norm(ip * Pow10(nf) + fp, Pow10(nf))
    IN  IF ni = 0 /\ (~dot \/ nf = 0) THEN [nan |-> TRUE]
        ELSE IF neg THEN [n |-> -mag.n, d |-> mag.d] ELSE mag

\* String(v) for a number with a finite decimal expansion, or a string
ToChars(v) ==
    IF IsStr(v) THEN v.s
    ELSE IF v.d = 1 THEN IntToChars(v.n)
    ELSE LET a == Abs(v.n)
             k == CHOOSE j \in 1..4 : Pow10(j) % v.d = 0
                     /\ \A l \in 1..(j - 1) : Pow10(l) % v.d # 0
             scaled == a * (Pow10(k) \div v.d)
             fr == NatToChars(Pow10(k) + (scaled % Pow10(k)))
         IN  (IF v.n < 0 THEN <<"-">> ELSE <<>>)
               \o NatToChars(scaled \div Pow10(k)) \o <<".">> \o SubSeq(fr, 2, Len(fr))

\* Variant: a string without a leading number is read as 0.
parseFloat_zero(v) ==
    LET cs == ToChars(v)
    IN  IF IsNum(ParseDecimalAt(cs, SkipSpaces(cs, 1)))
        THEN ParseDecimalAt(cs, SkipSpaces(cs, 1)) ELSE R(0)

\* parseFloat(v): the argument is converted to a string; leading blanks are
\* skipped; the longest prefix that is a decimal literal is converted
\* (exponents and "Infinity" are not modelled)
parseFloat(v) ==
    LET cs == ToChars(v)
    IN  ParseDecimalAt(cs, SkipSpaces(cs, 1))

\* str.match(/([+-]?\d+(?:\.\d+)?)/): the first and last position of the
\* leftmost match, <<0, 0>> when there is none (null)
MatchStartsAt(cs, i) ==
    \/ IsDigit(cs[i])
    \/ cs[i] \in {"+", "-"} /\ i < Len(cs) /\ IsDigit(cs[i + 1])

weightMatch(cs) ==
    IF \E i \in 1..Len(cs) : MatchStartsAt(cs, i)
    THEN LET i == CHOOSE j \in 1..Len(cs) :
                     MatchStartsAt(cs, j) /\ \A l \in 1..(j - 1) : ~MatchStartsAt(cs, l)
             b == IF IsDigit(cs[i]) THEN i ELSE i + 1
             ni == DigitRun(cs, b)
             nf == IF b + ni <= Len(cs) /\ cs[b + ni] = "."
                   THEN DigitRun(cs, b + ni + 1) ELSE 0
             last == IF nf > 0 THEN b + ni + nf ELSE b + ni - 1
         IN  <<i, last>>
    ELSE <<0, 0>>

(***************************************************************************)
(* Detail projector: applyProgression.  The result is the projected        *)
(* details record, or TypeError when the function throws (a property read  *)
(* on an undefined increments).                                            *)
(***************************************************************************)
TypeError == [throw |-> "TypeError"]

\* Variant: copies the known fields only.
spreadCopy_known(obj) ==
    [k \in DOMAIN obj \cap {"sets", "reps", "weight", "duration", "rest", "description"} |-> obj[k]]

\* { ...obj }
spreadCopy(obj) == [k \in DOMAIN obj |-> obj[k]]

\* Variant: the projected sets are truncated instead of rounded.
projectedSets_floor(baselineDetails, currentWeek, increments, userMultiplier, strategy, adaptiveFactor) ==
    Norm(MathFloor(calculateProgressiveValue(
        baselineDetails.sets, currentWeek, increments.sets,
        userMultiplier, strategy, adaptiveFactor)), 1)

projectedSets(baselineDetails, currentWeek, increments, userMultiplier, strategy, adaptiveFactor) ==
    Norm(MathRound(calculateProgressiveValue(
        baselineDetails.sets, currentWeek, increments.sets,
        userMultiplier, strategy, adaptiveFactor)), 1)

projectedReps(baselineDetails, currentWeek, increments, userMultiplier, strategy, adaptiveFactor) ==
    LET repsNum == parseFloat(baselineDetails.reps)
        newReps == calculateProgressiveValue(
                       repsNum, currentWeek, increments.reps,
                       userMultiplier, strategy, adaptiveFactor)
        \* String(baseline.reps).replace(/[0-9.-]/g, '')
        unit == SelectSeq(ToChars(baselineDetails.reps),
                          LAMBDA c : ~IsDigit(c) /\ c \notin {".", "-"})
    IN  Str(IntToChars(MathRound(newReps)) \o unit)

projectedWeight(baselineDetails, currentWeek, increments, userMultiplier, strategy, adaptiveFactor) ==
    LET cs == baselineDetails.weight.s
        m == weightMatch(cs)
        baseWeight == parseFloat(Str(SubSeq(cs, m[1], m[2])))
        newWeight == calculateProgressiveValue(
                         baseWeight, currentWeek, increments.weight,
                         userMultiplier, strategy, adaptiveFactor)
    IN  Str(SubSeq(cs, 1, m[1] - 1) \o toFixed1(newWeight) \o SubSeq(cs, m[2] + 1, Len(cs)))

projectedDuration(baselineDetails, currentWeek, increments, userMultiplier, strategy, adaptiveFactor) ==
    Norm(MathRound(calculateProgressiveValue(
        baselineDetails.duration, currentWeek, increments.duration,
        userMultiplier, strategy, adaptiveFactor)), 1)

applyProgression(baselineDetails, currentWeek, progressionSettings, adaptiveFactor0) ==
    LET adaptiveFactor == Default(adaptiveFactor0, R(1))
        strategy == Get(progressionSettings, "strategy")
        increments == Get(progressionSettings, "increments")
        userMultiplier == Get(progressionSettings, "userMultiplier")
        \* the left operands of the && conditions, evaluated before increments is read
        setsNumeric == IsNum(Get(baselineDetails, "sets"))
        repsNumeric == /\ Truthy(Get(baselineDetails, "reps"))
                       /\ IsNum(parseFloat(baselineDetails.reps))  \* !isNaN
        weightNumeric == /\ Truthy(Get(baselineDetails, "weight"))
                         /\ IsStr(baselineDetails.weight)
                         /\ weightMatch(baselineDetails.weight.s) # <<0, 0>>
        durationNumeric == IsNum(Get(baselineDetails, "duration"))
        result == spreadCopy(baselineDetails)
    IN  IF IsUndefined(increments)
           /\ (setsNumeric \/ repsNumeric \/ weightNumeric \/ durationNumeric)
        THEN TypeError
        ELSE [k \in DOMAIN result |->
                IF k = "sets" /\ setsNumeric /\ Truthy(Get(increments, "sets"))
                THEN projectedSets(baselineDetails, currentWeek, increments,
                                   userMultiplier, strategy, adaptiveFactor)
                ELSE IF k = "reps" /\ repsNumeric /\ Truthy(Get(increments, "reps"))
                THEN projectedReps(baselineDetails, currentWeek, increments,
                                   userMultiplier, strategy, adaptiveFactor)
                ELSE IF k = "weight" /\ weightNumeric /\ Truthy(Get(increments, "weight"))
                THEN projectedWeight(baselineDetails, currentWeek, increments,
                                     userMultiplier, strategy, adaptiveFactor)
                ELSE IF k = "duration" /\ durationNumeric /\ Truthy(Get(increments, "duration"))
                THEN projectedDuration(baselineDetails, currentWeek, increments,
                                       userMultiplier, strategy, adaptiveFactor)
                ELSE result[k]]

(***************************************************************************)
(* History listener of App: the onSnapshot callback on the history         *)
(* collection.  A Firestore Timestamp is [ts], the Date it converts to is  *)
(* [date]; a server timestamp that is still pending reads as null.         *)
(***************************************************************************)
Timestamp(t) == [ts |-> t]
IsTimestamp(v) == DOMAIN v = {"ts"}

\* data.profileId === activeProfileId && data.completedAt
\*   && data.completedAt instanceof Timestamp
keepsDoc(data, profileId) ==
    /\ Get(data, "profileId") = profileId
    /\ Truthy(Get(data, "completedAt"))
    /\ IsTimestamp(Get(data, "completedAt"))

\* { ...data, id: doc.id, completedAt: data.completedAt.toDate() }
historyEntry(data, id) ==
    [k \in DOMAIN data \cup {"id", "completedAt"} |->
        IF k = "id" THEN id
        ELSE IF k = "completedAt"
             THEN (IF IsTimestamp(Get(data, "completedAt")) THEN [date |-> data.completedAt.ts]
                   ELSE Get(data, "completedAt"))
        ELSE data[k]]

\* Array.prototype.sort with (a, b) => b.completedAt - a.completedAt:
\* a stable sort, latest first
RECURSIVE insertDesc(_, _)
insertDesc(sorted, e) ==
    IF sorted = <<>> THEN <<e>>
    ELSE IF Head(sorted).completedAt.date >= e.completedAt.date
         THEN <<Head(sorted)>> \o insertDesc(Tail(sorted), e)
         ELSE <<e>> \o sorted

RECURSIVE sortDesc(_)
sortDesc(entries) ==
    IF entries = <<>> THEN <<>>
    ELSE insertDesc(sortDesc(SubSeq(entries, 1, Len(entries) - 1)), entries[Len(entries)])

\* querySnapshot.forEach(...) followed by the sort; the documents are docs[i]
\* with id i
historyListener(docs, profileId) ==
    LET kept == SelectSeq([i \in 1..Len(docs) |-> [id |-> i, data |-> docs[i]]],
                          LAMBDA d : keepsDoc(d.data, profileId))
    IN  sortDesc([i \in 1..Len(kept) |-> historyEntry(kept[i].data, kept[i].id)])

(***************************************************************************)
(* Schedule clock and week materialization of DashboardView.  Time is      *)
(* counted in clock units, DayLength of them to a day (the code counts     *)
(* milliseconds, 1000 * 60 * 60 * 24 to a day); clock value 0 is the start *)
(* of a Monday.                                                            *)
(***************************************************************************)
DayLength == 2

Weekdays == <<Atom("Monday"), Atom("Tuesday"), Atom("Wednesday"), Atom("Thursday"),
              Atom("Friday"), Atom("Saturday"), Atom("Sunday")>>

\* new Date().toLocaleDateString('en-US', { weekday: 'long' })
getTodayDayName(today) == Weekdays[((today \div DayLength) % 7) + 1]

\* Variant: the elapsed time is taken with its sign.
currentPlanWeekOf_signed(planStartDate, today, durationWeeks) ==
    LET diffTime == today - planStartDate.date
        diffDays == MathFloor(Q(diffTime, DayLength))
        weeks == MathFloor(Q(diffDays, 7))
        \* the remainder has the sign of the dividend
    IN  (IF weeks >= 0 THEN weeks % durationWeeks ELSE -((-weeks) % durationWeeks)) + 1

\* Variant: the week is not wrapped at the end of the plan.
currentPlanWeekOf_unwrapped(planStartDate, today, durationWeeks) ==
    LET diffTime == Abs(today - planStartDate.date)
        diffDays == MathFloor(Q(diffTime, DayLength))
    IN  MathFloor(Q(diffDays, 7)) + 1

\* (Math.floor(diffDays / 7) % plan.durationWeeks) + 1
currentPlanWeekOf(planStartDate, today, durationWeeks) ==
    LET diffTime == Abs(today - planStartDate.date)
        diffDays == MathFloor(Q(diffTime, DayLength))
    IN  (MathFloor(Q(diffDays, 7)) % durationWeeks) + 1

\* plan.progressionSettings?.adaptiveEnabled
adaptiveEnabledOf(p) ==
    /\ "progressionSettings" \in DOMAIN p
    /\ "adaptiveEnabled" \in DOMAIN p.progressionSettings
    /\ p.progressionSettings.adaptiveEnabled

\* Variant: the analyzer is consulted whatever the setting.
adaptiveFactorOf_always(p, hist, currentPlanWeek) ==
    calculateAdaptiveFactor(hist, currentPlanWeek)

adaptiveFactorOf(p, hist, currentPlanWeek) ==
    IF adaptiveEnabledOf(p) THEN calculateAdaptiveFactor(hist, currentPlanWeek) ELSE R(1)

\* plan.progressionSettings || { strategy: 'linear', increments: {}, userMultiplier: 1.0 }
settingsOf(p) ==
    IF "progressionSettings" \in DOMAIN p THEN p.progressionSettings
    ELSE [strategy |-> Linear, increments |-> <<>>, userMultiplier |-> R(1)]

\* Variant: the materialized exercise drops baselineDetails.
materializeExercise_replace(ex, currentPlanWeek, p, adaptiveFactor) ==
    [k \in (DOMAIN ex \ {"baselineDetails"}) \cup {"details"} |->
        IF k = "details"
        THEN applyProgression(
                 IF Truthy(Get(ex, "baselineDetails")) THEN ex.baselineDetails
                 ELSE ex.details,
                 currentPlanWeek, settingsOf(p), adaptiveFactor)
        ELSE ex[k]]

\* { ...ex, details: (ex.details || ex.baselineDetails) ? applyProgression(...) : undefined }
materializeExercise(ex, currentPlanWeek, p, adaptiveFactor) ==
    [k \in DOMAIN ex \cup {"details"} |->
        IF k = "details"
        THEN IF Truthy(Get(ex, "details")) \/ Truthy(Get(ex, "baselineDetails"))
             THEN applyProgression(
                      IF Truthy(Get(ex, "baselineDetails")) THEN ex.baselineDetails
                      ELSE ex.details,
                      currentPlanWeek, settingsOf(p), adaptiveFactor)
             ELSE Undefined
        ELSE ex[k]]

\* Variant: the exercises of a day come out in reverse order.
materializeDay_reversed(day, currentPlanWeek, p, adaptiveFactor) ==
    [k \in DOMAIN day |->
        IF k = "exercises"
        THEN [j \in 1..Len(day.exercises) |->
                 materializeExercise(day.exercises[Len(day.exercises) + 1 - j],
                                     currentPlanWeek, p, adaptiveFactor)]
        ELSE day[k]]

\* { ...day, exercises: day.exercises.map(...) }
materializeDay(day, currentPlanWeek, p, adaptiveFactor) ==
    [k \in DOMAIN day |->
        IF k = "exercises"
        THEN [j \in 1..Len(day.exercises) |->
                 materializeExercise(day.exercises[j], currentPlanWeek, p, adaptiveFactor)]
        ELSE day[k]]

\* Variant: the projection also depends on the day the clock shows.
materializeWeek_clock(p, currentPlanWeek, adaptiveFactor) ==
    [weekNumber |-> currentPlanWeek,
     days |-> [i \in 1..Len(p.baseWeek.days) |->
                  materializeDay(p.baseWeek.days[i],
                                 currentPlanWeek + ((now \div DayLength) % 2),
                                 p, adaptiveFactor)]]

materializeWeek(p, currentPlanWeek, adaptiveFactor) ==
    [weekNumber |-> currentPlanWeek,
     days |-> [i \in 1..Len(p.baseWeek.days) |->
                  materializeDay(p.baseWeek.days[i], currentPlanWeek, p, adaptiveFactor)]]

\* currentWeek.days.find(d => d.day === todayDayName)
findDay(days, dayName) ==
    IF \E i \in 1..Len(days) : days[i].day = dayName
    THEN days[CHOOSE i \in 1..Len(days) :
                 days[i].day = dayName /\ \A l \in 1..(i - 1) : days[l].day # dayName]
    ELSE Undefined

\* history.some(log => logDate === todayStr && log.day === todayDayName)
completedToday(hist, today, todayDayName) ==
    \E i \in 1..Len(hist) :
        \* date.toISOString().split('T')[0]: the calendar day
        /\ hist[i].completedAt.date \div DayLength = today \div DayLength
        /\ Get(hist[i], "day") = todayDayName

\* an exception thrown while rendering
RenderError == [throw |-> "render"]

weekThrows(week) ==
    \E i \in 1..Len(week.days) : \E j \in 1..Len(week.days[i].exercises) :
        week.days[i].exercises[j].details = TypeError

\* the value of a const: computed once where it is declared
Const(S) == CHOOSE x \in S : TRUE

\* the object returned by the callback of the first useMemo
memoResult(hist, today, todayDayName, currentPlanWeek, adaptiveFactor, currentWeek) ==
    IF weekThrows(currentWeek) THEN RenderError
    ELSE [currentWeekData |-> currentWeek,
          todayWorkoutData |-> findDay(currentWeek.days, todayDayName),
          currentPlanWeek |-> currentPlanWeek,
          isCompletedToday |-> completedToday(hist, today, todayDayName),
          adaptiveFactor |-> adaptiveFactor,
          todayDayName |-> todayDayName]

\* the function memoized by the first useMemo of DashboardView, with the
\* todayDayName it depends on
dashboardMemo(p, hist, today) ==
    Const(UNION UNION UNION
      {{{{ memoResult(hist, today, todayDayName, currentPlanWeek, adaptiveFactor, currentWeek)
           : currentWeek \in {materializeWeek(p, currentPlanWeek, adaptiveFactor)} }
           : adaptiveFactor \in {adaptiveFactorOf(p, hist, currentPlanWeek)} }
           : currentPlanWeek \in {currentPlanWeekOf(p.createdAt, today, p.durationWeeks)} }
           : todayDayName \in {getTodayDayName(today)} })

(***************************************************************************)
(* Inputs of the value projector.                                          *)
(***************************************************************************)

\* a call that is not taking place
Idle == [pc |-> "idle"]

Project ==
    /\ pv.pc = "call"
    /\ pv' = [pv EXCEPT !.pc = "done",
                        !.result = calculateProgressiveValue(
                            pv.baseValue, pv.weekNumber, pv.increment,
                            pv.userMultiplier, pv.strategy, pv.adaptiveFactor)]
    /\ UNCHANGED <<af, ap, hl, pw, sp, gm, aw, appVars>>

\* the application before any plan is loaded
AppIdle ==
    /\ now = 0 /\ plan = Null /\ store = <<>> /\ snapshotPending = FALSE
    /\ history = <<>> /\ currentView = "dashboard" /\ activeWorkoutDay = Null
    /\ memo = Null /\ isLogging = FALSE /\ isCompleting = FALSE
    /\ consoleError = Null

InitProject ==
    /\ \E v \in {R(0), R(5), R(80)}, w \in 1..MaxWeek,
          i \in {R(0), R(2), Q(5, 2), R(5)},
          m \in {Undefined, Q(1, 2), R(1), R(2)},
          s \in {Undefined, Linear, Percentage},
          f \in {Undefined, Q(9, 10), Q(19, 20), R(1), Q(11, 10)} :
           pv = [pc |-> "call", baseValue |-> v, weekNumber |-> w, increment |-> i,
                 userMultiplier |-> m, strategy |-> s, adaptiveFactor |-> f,
                 result |-> R(0)]
    /\ af = Idle /\ ap = Idle /\ hl = Idle /\ pw = Idle /\ sp = Idle /\ gm = Idle /\ aw = Idle
    /\ AppIdle
NextProject == Project
SpecProject == InitProject /\ [][NextProject]_vars

(***************************************************************************)
(* The adherence analyzer applied to histories built entry by entry.       *)
(***************************************************************************)

LogEntry(w) == IF w = Undefined THEN [day |-> Atom("Monday")]
               ELSE [day |-> Atom("Monday"), weekNumber |-> w]

AddEntry ==
    /\ af.pc = "build"
    /\ Len(af.history) < MaxHist
    /\ \E w \in ({R(w) : w \in 1..MaxLogWeek} \cup {Undefined}) :
          af' = [af EXCEPT !.history = Append(af.history, LogEntry(w))]
    /\ UNCHANGED <<pv, ap, hl, pw, sp, gm, aw, appVars>>

Analyze ==
    /\ af.pc = "build"
    /\ af' = [af EXCEPT !.pc = "done",
                        !.result = calculateAdaptiveFactor(af.history, af.currentWeek)]
    /\ UNCHANGED <<pv, ap, hl, pw, sp, gm, aw, appVars>>

InitAdaptive ==
    /\ \E cw \in 1..MaxCurrentWeek :
           af = [pc |-> "build", history |-> <<>>, currentWeek |-> cw, result |-> R(0)]
    /\ pv = Idle /\ ap = Idle /\ hl = Idle /\ pw = Idle /\ sp = Idle /\ gm = Idle /\ aw = Idle
    /\ AppIdle
NextAdaptive == AddEntry \/ Analyze
SpecAdaptive == InitAdaptive /\ [][NextAdaptive]_vars

(***************************************************************************)
(* The detail projector applied to baseline details and settings.          *)
(***************************************************************************)
Kg80 == Str(<<"8", "0", "k", "g">>)
Bodyweight == Str(<<"B", "o", "d", "y", "w", "e", "i", "g", "h", "t">>)
TenS == Str(<<"1", "0", "s">>)
Tempo == Str(<<"3", "-", "1", "-", "1">>)
Deep == Str(<<"d", "e", "e", "p">>)

Apply ==
    /\ ap.pc = "call"
    /\ ap' = [ap EXCEPT !.pc = "done",
                        !.result = applyProgression(ap.baselineDetails, ap.currentWeek,
                                                    ap.progressionSettings, ap.adaptiveFactor)]
    /\ UNCHANGED <<pv, af, hl, pw, sp, gm, aw, appVars>>

InitApply ==
    /\ \E b \in
          { [sets |-> R(3), reps |-> R(10), weight |-> Kg80, rest |-> R(60),
             description |-> Deep, tempo |-> Tempo],
            [sets |-> R(3), reps |-> TenS, weight |-> Bodyweight, rest |-> R(90)],
            [sets |-> R(6), reps |-> Str(<<"m", "a", "x", " ", "1", "0", "+">>),
             duration |-> R(30), rest |-> R(10), description |-> Deep],
            [reps |-> Str(<<"A", "M", "R", "A", "P">>),
             weight |-> Str(<<"+", "1", "0", "k", "g">>), tempo |-> Tempo],
            [sets |-> Str(<<"3">>), reps |-> R(0), weight |-> R(80), duration |-> TenS,
             rest |-> R(60)],
            [reps |-> Str(<<"8", "-", "1", "2">>),
             weight |-> Str(<<"7", "0", "%", " ", "1", "R", "M">>), description |-> Deep],
            [sets |-> R(3), rest |-> R(30),
             reps |-> Str(<<"1", "0", " ", "e", "a", "c", "h", "-", "s", "i", "d", "e">>)],
            [description |-> Deep, rest |-> R(0)] } :
       \E ps \in
          { [strategy |-> Linear, userMultiplier |-> R(1), adaptiveEnabled |-> TRUE,
             increments |-> [sets |-> R(0), reps |-> R(1), weight |-> Q(5, 2),
                             duration |-> R(5)]],
            [strategy |-> Linear, userMultiplier |-> Q(1, 2), adaptiveEnabled |-> FALSE,
             increments |-> [sets |-> R(1), reps |-> R(2), weight |-> Q(5, 2),
                             duration |-> R(5)]],
            [strategy |-> Percentage, userMultiplier |-> R(2), adaptiveEnabled |-> TRUE,
             increments |-> [sets |-> R(5), reps |-> R(5), weight |-> Q(5, 2),
                             duration |-> R(5)]],
            \* the settings the dashboard substitutes for a plan without progressionSettings
            [strategy |-> Linear, userMultiplier |-> R(1), increments |-> <<>>],
            \* increments of reps and weight only
            [strategy |-> Linear, userMultiplier |-> R(1),
             increments |-> [reps |-> R(2), weight |-> Q(5, 2)]],
            \* only some increments, no strategy, no multiplier
            [increments |-> [weight |-> R(5)], adaptiveEnabled |-> TRUE],
            \* no increments mapping
            [strategy |-> Linear, userMultiplier |-> R(1), adaptiveEnabled |-> TRUE] } :
       \E w \in 1..MaxWeek, f \in {Undefined, Q(9, 10), R(1), Q(11, 10)} :
           ap = [pc |-> "call", baselineDetails |-> b, currentWeek |-> w,
                 progressionSettings |-> ps, adaptiveFactor |-> f, result |-> <<>>]
    /\ pv = Idle /\ af = Idle /\ hl = Idle /\ pw = Idle /\ sp = Idle /\ gm = Idle /\ aw = Idle
    /\ AppIdle
NextApply == Apply
SpecApply == InitApply /\ [][NextApply]_vars

(***************************************************************************)
(* The history listener followed by the adherence analyzer, on the         *)
(* documents of the history collection.                                    *)
(***************************************************************************)
Profile1 == Atom("profile-1")

\* a document is added to the collection
HlAddDoc ==
    /\ hl.pc = "write"
    /\ Len(hl.docs) < MaxDocs
    /\ \E d \in
          \* documents of the active profile: with or without weekNumber, with a
          \* confirmed, a pending (null) or no completedAt; and documents of another
          \* profile
          UNION { { [profileId |-> Profile1, weekNumber |-> R(w), completedAt |-> c],
                    [profileId |-> Profile1, weekNumber |-> R(w)] } :
                  w \in 1..MaxLogWeek, c \in {Timestamp(1), Timestamp(2), Null} }
          \cup { [profileId |-> Profile1, completedAt |-> Timestamp(1)],
                 [profileId |-> Atom("profile-2"), weekNumber |-> R(1),
                  completedAt |-> Timestamp(2)] } :
           hl' = [hl EXCEPT !.docs = Append(hl.docs, d)]
    /\ UNCHANGED <<pv, af, ap, pw, sp, gm, aw, appVars>>

\* the onSnapshot callback: setHistory(historyData)
HlSnapshot ==
    /\ hl.pc = "write"
    /\ hl' = [hl EXCEPT !.pc = "analyze",
                        !.history = historyListener(hl.docs, Profile1)]
    /\ UNCHANGED <<pv, af, ap, pw, sp, gm, aw, appVars>>

HlAnalyze ==
    /\ hl.pc = "analyze"
    /\ hl' = [hl EXCEPT !.pc = "done",
                        !.result = calculateAdaptiveFactor(hl.history, hl.currentWeek)]
    /\ UNCHANGED <<pv, af, ap, pw, sp, gm, aw, appVars>>

InitListener ==
    /\ \E cw \in 1..MaxCurrentWeek :
           hl = [pc |-> "write", docs |-> <<>>, history |-> <<>>, currentWeek |-> cw,
                 result |-> R(0)]
    /\ pv = Idle /\ af = Idle /\ ap = Idle /\ pw = Idle /\ sp = Idle /\ gm = Idle /\ aw = Idle
    /\ AppIdle
NextListener == HlAddDoc \/ HlSnapshot \/ HlAnalyze
SpecListener == InitListener /\ [][NextListener]_vars

(***************************************************************************)
(* The application: the dashboard, the workout view, the history           *)
(* collection and its listener, and the clock.                             *)
(***************************************************************************)
ExSquat == [name |-> Atom("Squat"), type |-> Atom("repsSetsWeight"),
            baselineDetails |-> [sets |-> R(3), reps |-> R(10), weight |-> Kg80,
                                 rest |-> R(60), description |-> Deep]]
ExPlank == [name |-> Atom("Plank"), type |-> Atom("timer"),
            baselineDetails |-> [sets |-> R(3), duration |-> R(30), rest |-> R(10)]]

BaseWeek ==
    [days |-> << [day |-> Weekdays[1], focus |-> Atom("Legs"), exercises |-> <<ExSquat>>],
                 [day |-> Weekdays[2], focus |-> Atom("Core"), exercises |->
                    <<ExPlank,
                      [name |-> Atom("Hang"), type |-> Atom("hangboard"),
                       baselineDetails |-> [sets |-> R(6), duration |-> R(10), rest |-> R(5),
                                            weight |-> Bodyweight]]>>],
                 [day |-> Weekdays[3], focus |-> Atom("Rest"), exercises |-> <<>>],
                 [day |-> Weekdays[4], focus |-> Atom("Pull"), exercises |->
                    \* an exercise stored under the older field name
                    <<[name |-> Atom("Pull-up"), type |-> Atom("repsSetsWeight"),
                       details |-> [sets |-> R(3), reps |-> TenS,
                                    weight |-> Str(<<"+", "1", "0", "k", "g">>)]]>>],
                 [day |-> Weekdays[5], focus |-> Atom("Legs"), exercises |-> <<ExSquat, ExPlank>>],
                 [day |-> Weekdays[6], focus |-> Atom("Rest"), exercises |-> <<>>],
                 [day |-> Weekdays[7], focus |-> Atom("Rest"), exercises |-> <<>>] >>]

AdaptivePlan(d) ==
    [planName |-> Atom("Plan"), durationWeeks |-> d, createdAt |-> [date |-> 0],
     baseWeek |-> BaseWeek,
     progressionSettings |->
       [strategy |-> Linear, userMultiplier |-> R(1), adaptiveEnabled |-> TRUE,
        increments |-> [sets |-> R(0), reps |-> R(1), weight |-> Q(5, 2), duration |-> R(5)]]]

activeProfileId == Profile1

\* a completion logged in week 1 on the given day of the week (1 = Monday)
LoggedInWeek1(d) ==
    [completedAt |-> Timestamp((d - 1) * DayLength),
     planName |-> Atom("Plan"),
     weekNumber |-> R(1),
     day |-> Weekdays[d],
     focus |-> BaseWeek.days[d].focus,
     exercises |-> [j \in 1..Len(BaseWeek.days[d].exercises) |->
                       BaseWeek.days[d].exercises[j].name],
     profileId |-> activeProfileId]

\* a document written by the earlier version of handleFinish (no profileId)
LegacyDoc ==
    [completedAt |-> Timestamp(0), planName |-> Atom("Plan"), weekNumber |-> R(1),
     day |-> Weekdays[1], focus |-> Atom("Legs"), exercises |-> <<Atom("Squat")>>]

\* a render of DashboardView: the memoized value is recomputed when a
\* dependency (plan, history, todayDayName) has changed
rerender(m, hist) ==
    IF m # RenderError /\ getTodayDayName(now) = m.todayDayName /\ hist = history
    THEN m ELSE dashboardMemo(plan, hist, now)

\* the buttons "Start Training" and "Mark as Done" are shown and enabled
canLogToday ==
    /\ currentView = "dashboard"
    /\ memo # RenderError
    /\ memo.todayWorkoutData # Undefined
    /\ Len(memo.todayWorkoutData.exercises) > 0
    /\ ~memo.isCompletedToday
    /\ ~isLogging

\* a write of the collection that the server has not yet stored
inFlight == \E i \in 1..Len(store) : store[i].completedAt = Null

\* a day passes; a write to the store and its snapshot take far less
ClockAdvance ==
    /\ now < MaxDay * DayLength
    /\ ~snapshotPending /\ ~inFlight
    /\ now' = now + DayLength
    /\ UNCHANGED <<plan, store, snapshotPending, history, currentView, activeWorkoutDay,
                   memo, isLogging, isCompleting, consoleError, callVars>>

\* Variant: the week is materialized into the exercises of the plan.
Render_inplace ==
    /\ currentView = "dashboard"
    /\ memo # RenderError
    /\ getTodayDayName(now) # memo.todayDayName
    /\ memo' = rerender(memo, history)
    /\ plan' = IF memo' = RenderError THEN plan
               ELSE [plan EXCEPT !.baseWeek.days = memo'.currentWeekData.days]
    /\ UNCHANGED <<now, store, snapshotPending, history, currentView,
                   activeWorkoutDay, isLogging, isCompleting, consoleError, callVars>>

\* DashboardView renders again (for instance after setSelectedDayName)
Render ==
    /\ currentView = "dashboard"
    /\ memo # RenderError
    /\ getTodayDayName(now) # memo.todayDayName
    /\ memo' = rerender(memo, history)
    /\ UNCHANGED <<now, plan, store, snapshotPending, history, currentView,
                   activeWorkoutDay, isLogging, isCompleting, consoleError, callVars>>

\* DashboardView.handleLogAsDone: activeProfileId is not a binding of
\* DashboardView, so building the argument of addDoc throws a ReferenceError
\* before anything is awaited; catch logs it, finally undoes setIsLogging(true)
handleLogAsDone ==
    /\ canLogToday
    /\ consoleError' = Atom("Error logging workout:")
    /\ isLogging' = FALSE
    /\ memo' = rerender(memo, history)
    /\ UNCHANGED <<now, plan, store, snapshotPending, history, currentView,
                   activeWorkoutDay, isCompleting, callVars>>

\* the onSnapshot callback of the history collection
onHistorySnapshot ==
    /\ snapshotPending
    /\ snapshotPending' = FALSE
    /\ history' = historyListener(store, activeProfileId)
    /\ memo' = IF currentView = "dashboard" /\ memo # RenderError
               THEN dashboardMemo(plan, history', now) ELSE memo
    /\ UNCHANGED <<now, plan, store, currentView, activeWorkoutDay, isLogging,
                   isCompleting, consoleError, callVars>>

\* startWorkout({ ...todayWorkoutData, weekNumber: currentPlanWeek })
startWorkout ==
    /\ canLogToday
    /\ activeWorkoutDay' = [k \in DOMAIN memo.todayWorkoutData \cup {"weekNumber"} |->
                               IF k = "weekNumber" THEN R(memo.currentPlanWeek)
                               ELSE memo.todayWorkoutData[k]]
    /\ currentView' = "activeWorkout"
    /\ UNCHANGED <<now, plan, store, snapshotPending, history, memo, isLogging,
                   isCompleting, consoleError, callVars>>

\* ActiveWorkoutView.handleFinish up to the await of addDoc
handleFinish ==
    /\ currentView = "activeWorkout"
    /\ ~isCompleting
    /\ Len(store) < MaxStore
    /\ isCompleting' = TRUE
    /\ store' = Append(store,
          [completedAt |-> Null,
           planName |-> plan.planName,
           weekNumber |-> R(currentPlanWeekOf(plan.createdAt, now, plan.durationWeeks)),
           day |-> activeWorkoutDay.day,
           focus |-> activeWorkoutDay.focus,
           exercises |-> [j \in 1..Len(activeWorkoutDay.exercises) |->
                             activeWorkoutDay.exercises[j].name],
           profileId |-> activeProfileId])
    /\ snapshotPending' = TRUE
    /\ UNCHANGED <<now, plan, history, currentView, activeWorkoutDay, memo, isLogging,
                   consoleError, callVars>>

\* showDashboard: DashboardView is mounted (anew when another view was shown)
showDashboard ==
    /\ currentView' = "dashboard"
    /\ activeWorkoutDay' = Null
    /\ memo' = IF currentView = "dashboard" THEN memo ELSE dashboardMemo(plan, history, now)
    /\ isLogging' = FALSE
    /\ isCompleting' = FALSE

\* the server stores the document and addDoc resolves: the rest of handleFinish
finishResolved ==
    /\ inFlight
    /\ LET i == CHOOSE i \in 1..Len(store) :
                   /\ store[i].completedAt = Null
                   /\ \A l \in 1..(i - 1) : store[l].completedAt # Null
       IN  store' = [store EXCEPT ![i].completedAt = Timestamp(now)]
    /\ snapshotPending' = TRUE
    /\ showDashboard
    /\ UNCHANGED <<now, plan, history, consoleError, callVars>>

\* the close button of ActiveWorkoutView
closeWorkout ==
    /\ currentView = "activeWorkout"
    /\ showDashboard
    /\ UNCHANGED <<now, plan, store, snapshotPending, history, consoleError, callVars>>

(***************************************************************************)
(* The schedule clock applied to a plan and a time.                        *)
(***************************************************************************)
\* the week calculation of the useMemo callback and of handleFinish
PlanWeek ==
    /\ pw.pc = "call"
    /\ pw' = [pw EXCEPT !.pc = "done",
                        !.result = currentPlanWeekOf(pw.createdAt, pw.today,
                                                     pw.durationWeeks)]
    /\ UNCHANGED <<pv, af, ap, hl, sp, gm, aw, appVars>>

InitClock ==
    /\ \/ \E c \in 0..MaxClock, t \in 0..MaxClock, d \in 1..MaxDuration :
             pw = [pc |-> "call", createdAt |-> [date |-> c], today |-> t,
                   durationWeeks |-> d, result |-> 0]
       \/ \E c \in 0..1, day \in (82..85), h \in 0..(DayLength - 1) :
             pw = [pc |-> "call", createdAt |-> [date |-> c],
                   today |-> c + day * DayLength + h,
                   durationWeeks |-> 12, result |-> 0]
    /\ pv = Idle /\ af = Idle /\ ap = Idle /\ hl = Idle /\ sp = Idle /\ gm = Idle /\ aw = Idle
    /\ AppIdle
NextClock == PlanWeek
SpecClock == InitClock /\ [][NextClock]_vars

InitApp ==
    /\ plan \in
          { AdaptivePlan(1), AdaptivePlan(2),
            \* adaptiveEnabled false
            [AdaptivePlan(2) EXCEPT !.progressionSettings =
                [strategy |-> Percentage, userMultiplier |-> R(1), adaptiveEnabled |-> FALSE,
                 increments |-> [sets |-> R(0), reps |-> R(5), weight |-> R(5), duration |-> R(5)]]],
            \* no adaptiveEnabled
            [AdaptivePlan(2) EXCEPT !.progressionSettings =
                [strategy |-> Linear, userMultiplier |-> R(2),
                 increments |-> [reps |-> R(1), weight |-> Q(5, 2)]]],
            \* no progressionSettings
            [planName |-> Atom("Plan"), durationWeeks |-> 2, createdAt |-> [date |-> 0],
             baseWeek |-> BaseWeek] }
    /\ \E st \in
          \* the application starts on the first day of a new plan, the collection
          \* holding documents of an earlier version and of another profile, or on the
          \* Friday of week 1 with the workouts of Monday, Tuesday and Thursday logged
          { [now |-> 0,
             store |-> <<LegacyDoc,
                         [LoggedInWeek1(1) EXCEPT !.profileId = Atom("profile-2")],
                         [LoggedInWeek1(2) EXCEPT !.profileId = Atom("profile-2")]>>],
            [now |-> 4 * DayLength,
             store |-> <<LoggedInWeek1(1), LoggedInWeek1(2), LoggedInWeek1(4)>>] } :
          /\ now = st.now
          /\ store = st.store
          /\ history = historyListener(st.store, activeProfileId)
          /\ memo = dashboardMemo(plan, history, now)
    /\ snapshotPending = FALSE
    /\ currentView = "dashboard"
    /\ activeWorkoutDay = Null
    /\ isLogging = FALSE
    /\ isCompleting = FALSE
    /\ consoleError = Null
    /\ pv = Idle /\ af = Idle /\ ap = Idle /\ hl = Idle /\ pw = Idle /\ sp = Idle /\ gm = Idle /\ aw = Idle
NextApp ==
    \/ ClockAdvance \/ Render \/ handleLogAsDone
    \/ onHistorySnapshot \/ startWorkout \/ handleFinish \/ finishResolved
    \/ closeWorkout
SpecApp == InitApp /\ [][NextApp]_vars

(***************************************************************************)
(* A workout session: ActiveWorkoutView and the component of the exercise  *)
(* it shows, in the earlier version of the application (lines 248-490) and *)
(* in the current one (lines 2192-2782).  Sets, durations and rests are    *)
(* whole numbers, a duration or a rest a number of seconds; an interval    *)
(* callback runs once a second.                                            *)
(***************************************************************************)

TimerKinds == {"TimerComponent", "HangboardComponent"}

\* the component ActiveWorkoutView renders for currentExercise
componentOf(version, ex) ==
    IF ex.type = Atom("timer") THEN "TimerComponent"
    ELSE IF version = "earlier" THEN "RepsSetsWeightComponent"
    ELSE IF ex.type = Atom("hangboard") THEN "HangboardComponent"
    ELSE IF ex.type = Atom("repsSetsWeight") THEN "SetTrackingComponent"
    ELSE "RepsSetsWeightComponent"

\* the state of a component when it mounts: the initial values of useState
mounted(kind, ex) ==
    IF kind \in TimerKinds
    THEN [kind |-> kind, currentSet |-> 1, isResting |-> FALSE,
          timeLeft |-> ex.details.duration, isActive |-> FALSE]
    ELSE IF kind = "SetTrackingComponent"
    THEN [kind |-> kind, completedSets |-> 0, isResting |-> FALSE, restTimeLeft |-> 0]
    ELSE [kind |-> kind]

Unmounted == [kind |-> "none"]

\* the component after ActiveWorkoutView renders the exercise ex where comp
\* was shown: the element has no key, so an element of the same type at the
\* same place keeps the state of its hooks. TimerComponent and
\* HangboardComponent of the current version render
\* getExerciseIconColor(plan?.sport), and plan is not a binding of either:
\* the render throws a ReferenceError
reconcile(version, comp, ex) ==
    IF version = "current" /\ componentOf(version, ex) \in TimerKinds THEN Unmounted
    ELSE IF comp.kind = componentOf(version, ex) THEN comp
    ELSE mounted(componentOf(version, ex), ex)

\* dayData.exercises[currentIndex]
currentExercise == activeWorkoutDay.exercises[aw.currentIndex + 1]

\* the session is on the screen: a render that throws unmounts the application
shown == aw.pc = "shown" /\ currentView = "activeWorkout"

\* the earlier handleFinish: Math.floor(diffDays / 7) + 1
earlierPlanWeekOf(planStartDate, today) ==
    LET diffTime == Abs(today - planStartDate.date)
        diffDays == MathFloor(Q(diffTime, DayLength))
    IN  MathFloor(Q(diffDays, 7)) + 1

\* the document handleFinish hands to addDoc
finishDoc(version) ==
    LET doc == [completedAt |-> Null,
                planName |-> plan.planName,
                weekNumber |-> R(IF version = "earlier"
                                 THEN earlierPlanWeekOf(plan.createdAt, now)
                                 ELSE currentPlanWeekOf(plan.createdAt, now,
                                                        plan.durationWeeks)),
                day |-> activeWorkoutDay.day,
                focus |-> activeWorkoutDay.focus,
                exercises |-> [j \in 1..Len(activeWorkoutDay.exercises) |->
                                  activeWorkoutDay.exercises[j].name],
                profileId |-> activeProfileId]
    IN  IF version = "earlier" THEN [k \in DOMAIN doc \ {"profileId"} |-> doc[k]] ELSE doc

\* handleFinish up to the await of addDoc, a being the session after the
\* state updates of the caller
handleFinishIn(a) ==
    /\ Len(store) < MaxStore
    /\ isCompleting' = TRUE
    /\ store' = Append(store, finishDoc(a.version))
    /\ snapshotPending' = TRUE
    /\ aw' = a
    /\ UNCHANGED <<now, plan, history, currentView, activeWorkoutDay, memo, isLogging,
                   consoleError, pv, af, ap, hl, pw, sp, gm>>

\* handleNext where currentIndex < dayData.exercises.length - 1
handleNext(a) ==
    /\ LET comp == reconcile(a.version, a.comp, activeWorkoutDay.exercises[a.currentIndex + 2])
       IN  aw' = [a EXCEPT !.currentIndex = @ + 1,
                           !.comp = comp,
                           !.pc = IF comp = Unmounted THEN "crashed" ELSE @]
    /\ UNCHANGED <<appVars, pv, af, ap, hl, pw, sp, gm>>

\* handleDone, and handleSkip, which has the same body
handleDone(a) ==
    IF aw.currentIndex = Len(activeWorkoutDay.exercises) - 1  \* isLastExercise
    THEN handleFinishIn(a)
    ELSE handleNext(a)

\* the button "Done with Exercise" / "Finish Workout"
pressDone ==
    /\ shown
    /\ aw.comp.kind = "RepsSetsWeightComponent"
    /\ ~isCompleting
    /\ handleDone(aw)

\* the button "Skip Exercise" / "Skip and Finish"
pressSkip ==
    /\ shown
    /\ ~isCompleting
    /\ handleDone(aw)

onlyAw == UNCHANGED <<appVars, pv, af, ap, hl, pw, sp, gm>>

startTimer ==
    /\ shown
    /\ aw.comp.kind \in TimerKinds
    /\ ~aw.comp.isActive
    /\ aw' = [aw EXCEPT !.comp.isActive = TRUE]
    /\ onlyAw

pauseTimer ==
    /\ shown
    /\ aw.comp.kind \in TimerKinds
    /\ aw.comp.isActive
    /\ aw' = [aw EXCEPT !.comp.isActive = FALSE]
    /\ onlyAw

resetTimer ==
    /\ shown
    /\ aw.comp.kind \in TimerKinds
    /\ aw' = [aw EXCEPT !.comp = [kind |-> @.kind, currentSet |-> 1, isResting |-> FALSE,
                                  timeLeft |-> currentExercise.details.duration,
                                  isActive |-> FALSE]]
    /\ onlyAw

\* Variant: when the last work phase runs out the set is started again.
timerTick_again ==
    /\ shown
    /\ aw.comp.kind \in TimerKinds
    /\ aw.comp.isActive
    /\ aw.onCompleteCalls < MaxCalls
    /\ LET c == aw.comp
           d == currentExercise.details
       IN  IF c.timeLeft <= 1
           THEN IF ~c.isResting
                THEN IF c.currentSet < d.sets
                     THEN aw' = [aw EXCEPT !.comp.isResting = TRUE, !.comp.timeLeft = d.rest]
                          /\ onlyAw
                     ELSE aw' = [aw EXCEPT !.comp.timeLeft = d.duration] /\ onlyAw
                ELSE aw' = [aw EXCEPT !.comp.isResting = FALSE,
                                      !.comp.currentSet = @ + 1,
                                      !.comp.timeLeft = d.duration]
                     /\ onlyAw
           ELSE aw' = [aw EXCEPT !.comp.timeLeft = @ - 1] /\ onlyAw

\* the callback of setInterval in TimerComponent and HangboardComponent
timerTick ==
    /\ shown
    /\ aw.comp.kind \in TimerKinds
    /\ aw.comp.isActive
    /\ aw.onCompleteCalls < MaxCalls
    /\ LET c == aw.comp
           d == currentExercise.details
       IN  IF c.timeLeft <= 1
           THEN IF ~c.isResting
                THEN IF c.currentSet < d.sets
                     THEN aw' = [aw EXCEPT !.comp.isResting = TRUE, !.comp.timeLeft = d.rest]
                          /\ onlyAw
                     ELSE handleDone([aw EXCEPT !.comp.isActive = FALSE,
                                                !.comp.timeLeft = 0,
                                                !.onCompleteCalls = @ + 1])
                ELSE aw' = [aw EXCEPT !.comp.isResting = FALSE,
                                      !.comp.currentSet = @ + 1,
                                      !.comp.timeLeft = d.duration]
                     /\ onlyAw
           ELSE aw' = [aw EXCEPT !.comp.timeLeft = @ - 1] /\ onlyAw

\* SetTrackingComponent.handleSetComplete: the button "Set n Done"
handleSetComplete ==
    /\ shown
    /\ aw.comp.kind = "SetTrackingComponent"
    /\ ~aw.comp.isResting
    /\ aw.comp.completedSets < currentExercise.details.sets
    /\ LET newCompletedSets == aw.comp.completedSets + 1
           d == currentExercise.details
       IN  IF newCompletedSets >= d.sets
           THEN handleDone([aw EXCEPT !.comp.completedSets = newCompletedSets,
                                      !.onCompleteCalls = @ + 1])
           ELSE IF d.rest > 0
           THEN aw' = [aw EXCEPT !.comp.completedSets = newCompletedSets,
                                 !.comp.isResting = TRUE,
                                 !.comp.restTimeLeft = d.rest]
                /\ onlyAw
           ELSE aw' = [aw EXCEPT !.comp.completedSets = newCompletedSets] /\ onlyAw

\* the callback of setInterval in SetTrackingComponent
restTick ==
    /\ shown
    /\ aw.comp.kind = "SetTrackingComponent"
    /\ aw.comp.isResting
    /\ currentExercise.details.rest > 0
    /\ aw' = IF aw.comp.restTimeLeft <= 1
             THEN [aw EXCEPT !.comp.isResting = FALSE, !.comp.restTimeLeft = 0]
             ELSE [aw EXCEPT !.comp.restTimeLeft = @ - 1]
    /\ onlyAw

\* the button "Skip Rest"
skipRest ==
    /\ shown
    /\ aw.comp.kind = "SetTrackingComponent"
    /\ aw.comp.isResting
    /\ aw' = [aw EXCEPT !.comp.isResting = FALSE, !.comp.restTimeLeft = 0]
    /\ onlyAw

\* the close button of ActiveWorkoutView: showDashboard
closeSession ==
    /\ shown
    /\ currentView' = "dashboard"
    /\ activeWorkoutDay' = Null
    /\ aw' = [aw EXCEPT !.pc = "closed", !.comp = Unmounted]
    /\ UNCHANGED <<now, plan, store, snapshotPending, history, memo, isLogging,
                   isCompleting, consoleError, pv, af, ap, hl, pw, sp, gm>>

\* the first document the server has not yet stored
firstInFlight ==
    CHOOSE i \in 1..Len(store) :
        /\ store[i].completedAt = Null
        /\ \A l \in 1..(i - 1) : store[l].completedAt # Null

\* addDoc resolves: the rest of handleFinish, showDashboard()
addDocResolved ==
    /\ aw.pc # "idle"
    /\ inFlight
    /\ store' = [store EXCEPT ![firstInFlight].completedAt = Timestamp(now)]
    /\ snapshotPending' = TRUE
    /\ currentView' = "dashboard"
    /\ activeWorkoutDay' = Null
    /\ aw' = [aw EXCEPT !.pc = "closed", !.comp = Unmounted]
    /\ UNCHANGED <<now, plan, history, memo, isLogging, isCompleting, consoleError,
                   pv, af, ap, hl, pw, sp, gm>>

\* addDoc rejects: the catch of handleFinish
addDocRejected ==
    /\ aw.pc # "idle"
    /\ inFlight
    /\ store' = SubSeq(store, 1, firstInFlight - 1)
                  \o SubSeq(store, firstInFlight + 1, Len(store))
    /\ consoleError' = Atom("Error logging workout:")
    /\ isCompleting' = FALSE
    /\ UNCHANGED <<aw, now, plan, snapshotPending, history, currentView, activeWorkoutDay,
                   memo, isLogging, pv, af, ap, hl, pw, sp, gm>>

\* exercises of a few seconds
WorkoutExercises ==
    [twoHolds |-> [name |-> Atom("Plank"), type |-> Atom("timer"),
                   details |-> [sets |-> 2, duration |-> 2, rest |-> 1]],
     oneHold |-> [name |-> Atom("Side plank"), type |-> Atom("timer"),
                  details |-> [sets |-> 1, duration |-> 1, rest |-> 0]],
     shortHang |-> [name |-> Atom("Hang"), type |-> Atom("hangboard"),
                    details |-> [sets |-> 2, duration |-> 1, rest |-> 1]],
     twoSets |-> [name |-> Atom("Squat"), type |-> Atom("repsSetsWeight"),
                  details |-> [sets |-> 2, reps |-> 10, weight |-> Kg80, rest |-> 2]],
     oneSet |-> [name |-> Atom("Press"), type |-> Atom("repsSetsWeight"),
                 details |-> [sets |-> 1, reps |-> 5, weight |-> Kg80, rest |-> 0]],
     stretch |-> [name |-> Atom("Stretch"), type |-> Atom("stretch"),
                  details |-> [sets |-> 1, reps |-> 1, weight |-> Bodyweight, rest |-> 0]]]

\* the days a session is started with: two exercises each
WorkoutDays ==
    { [day |-> Weekdays[1], focus |-> Atom("Core"),
       exercises |-> <<WorkoutExercises[pair[1]], WorkoutExercises[pair[2]]>>] :
      pair \in { <<"twoHolds", "oneHold">>, <<"twoSets", "oneSet">>,
                 <<"stretch", "twoHolds">>, <<"shortHang", "twoSets">>,
                 <<"oneSet", "shortHang">>, <<"oneHold", "stretch">> } }

\* a plan of two weeks, on the last day of its first week or after its last;
\* startWorkout(dayData) has mounted ActiveWorkoutView:
\* currentIndex 0, isCompleting false, the first exercise rendered
InitWorkout ==
    /\ plan = AdaptivePlan(2)
    /\ now \in {6 * DayLength, 14 * DayLength}
    /\ store = <<LegacyDoc>>
    /\ snapshotPending = FALSE
    /\ history = <<>>
    /\ currentView = "activeWorkout"
    /\ activeWorkoutDay \in WorkoutDays
    /\ memo = Null
    /\ isLogging = FALSE
    /\ isCompleting = FALSE
    /\ consoleError = Null
    /\ \E version \in {"earlier", "current"} :
          aw = [pc |-> IF reconcile(version, Unmounted, activeWorkoutDay.exercises[1]) = Unmounted
                       THEN "crashed" ELSE "shown",
                version |-> version,
                currentIndex |-> 0,
                comp |-> reconcile(version, Unmounted, activeWorkoutDay.exercises[1]),
                onCompleteCalls |-> 0]
    /\ pv = Idle /\ af = Idle /\ ap = Idle /\ hl = Idle /\ pw = Idle
    /\ sp = Idle /\ gm = Idle

NextWorkout ==
    \/ pressDone \/ pressSkip
    \/ startTimer \/ pauseTimer \/ resetTimer \/ timerTick
    \/ handleSetComplete \/ restTick \/ skipRest
    \/ closeSession \/ addDocResolved \/ addDocRejected
    \/ ClockAdvance

SpecWorkout == InitWorkout /\ [][NextWorkout]_vars

\* setInterval calls the callback every second for as long as the timer is
\* active and on the screen
SpecWorkoutLive == SpecWorkout /\ WF_vars(timerTick)

(***************************************************************************)
(* Plan import: CreatePlanView.handleManualImport and savePlanToFirestore. *)
(* In this part an array is the record [array |-> elements], so that it    *)
(* can be told from the other values as Array.isArray tells it.            *)
(***************************************************************************)
JsArray(elements) == [array |-> elements]
IsArray(v) == DOMAIN v = {"array"}

Thrown(message) == [throw |-> message]
InvalidJson == Thrown("Invalid JSON format. Please check your pasted text.")

\* the two tests at the head of savePlanToFirestore: the error thrown, or Null
validatePlan(planObject) ==
    IF IsNull(planObject) THEN TypeError
    ELSE IF \/ ~Truthy(Get(planObject, "planName"))
            \/ ~Truthy(Get(planObject, "baseWeek"))
            \/ ~Truthy(Get(planObject, "durationWeeks"))
    THEN Thrown("Invalid plan structure. Missing required fields.")
    ELSE IF \/ ~Truthy(Get(planObject.baseWeek, "days"))
            \/ ~IsArray(planObject.baseWeek.days)
    THEN Thrown("Invalid plan structure. baseWeek must have a days array.")
    ELSE Null

\* { ...planObject, createdAt: serverTimestamp() }
planWithTimestamp(planObject) ==
    [k \in DOMAIN planObject \cup {"createdAt"} |->
        IF k = "createdAt" THEN Null ELSE planObject[k]]

\* an object of the fields whose value is given
PlanObject(planName, baseWeek, durationWeeks) ==
    LET all == [planName |-> planName, baseWeek |-> baseWeek, durationWeeks |-> durationWeeks]
    IN  [k \in {f \in DOMAIN all : ~IsUndefined(all[f])} |-> all[k]]

\* handleManualImport up to the await of setDoc in savePlanToFirestore, or
\* through its catch and finally when an error is thrown before
handleManualImport ==
    /\ sp.pc = "manual"
    /\ sp' = IF sp.parsed = InvalidJson
             THEN [sp EXCEPT !.pc = "done", !.error = InvalidJson]
             ELSE IF validatePlan(sp.parsed) # Null
             THEN [sp EXCEPT !.pc = "done", !.error = validatePlan(sp.parsed)]
             ELSE [sp EXCEPT !.pc = "setDoc", !.isLoading = TRUE,
                             !.pending = planWithTimestamp(sp.parsed)]
    /\ UNCHANGED <<pv, af, ap, hl, pw, gm, aw, appVars>>

\* setDoc resolves: the plan document is replaced; showDashboard()
setDocResolved ==
    /\ sp.pc = "setDoc"
    /\ sp' = [sp EXCEPT !.pc = "done", !.isLoading = FALSE, !.pending = Null,
                        !.stored = [sp.pending EXCEPT !.createdAt = Timestamp(now)],
                        !.view = "dashboard"]
    /\ UNCHANGED <<pv, af, ap, hl, pw, gm, aw, appVars>>

\* setDoc rejects: the catch and the finally of handleManualImport
setDocRejected ==
    /\ sp.pc = "setDoc"
    /\ sp' = [sp EXCEPT !.pc = "done", !.isLoading = FALSE, !.pending = Null,
                        !.error = Thrown("setDoc")]
    /\ UNCHANGED <<pv, af, ap, hl, pw, gm, aw, appVars>>

InitSave ==
    /\ \E parsed \in
          \* what JSON.parse(manualJson) gives: a value, or the SyntaxError it throws
          { PlanObject(n, w, d) :
              n \in {Undefined, Str(<<>>), Str(<<"P">>)},
              w \in {Undefined, Null, R(7), [focus |-> Atom("Rest")], [days |-> Null],
                     [days |-> Str(<<"7">>)], [days |-> [length |-> R(7)]]}
                    \cup { [days |-> JsArray([i \in 1..len |->
                                        [day |-> Weekdays[1], focus |-> Atom("Rest"),
                                         exercises |-> JsArray(<<>>)]])] :
                           len \in {0, 6, 7, 8} },
              d \in {Undefined, R(0), R(4)} }
          \cup {Null, InvalidJson} :
       \E stored \in
          \* the plan document of the profile before the import
          { Null,
            planWithTimestamp(PlanObject(Str(<<"O">>), [days |-> JsArray(<<>>)], R(2))) } :
           sp = [pc |-> "manual", parsed |-> parsed, previous |-> stored, stored |-> stored,
                 pending |-> Null, error |-> Null, isLoading |-> FALSE, view |-> "createPlan"]
    /\ pv = Idle /\ af = Idle /\ ap = Idle /\ hl = Idle /\ pw = Idle
    /\ gm = Idle /\ aw = Idle /\ AppIdle
NextSave == handleManualImport \/ setDocResolved \/ setDocRejected
SpecSave == InitSave /\ [][NextSave]_vars

(***************************************************************************)
(* callGeminiApi: the request loop with exponential backoff.               *)
(***************************************************************************)
\* what a call of fetch can come to: a response with text, a response
\* without text, the statuses 429, 503 and 400, a rejection
FetchOutcomes == {"ok, text", "ok", "429", "503", "400", "rejected"}

\* the loop test passes and fetch is called
callFetch ==
    /\ gm.pc = "loop"
    /\ gm' = [gm EXCEPT !.pc = "fetch"]
    /\ UNCHANGED <<pv, af, ap, hl, pw, sp, aw, appVars>>

\* the promise of fetch settles: the rest of the loop body up to the return,
\* the throw or the next await
fetchSettles ==
    /\ gm.pc = "fetch"
    /\ \E outcome \in FetchOutcomes :
          gm' = IF outcome = "ok, text"
                THEN [gm EXCEPT !.pc = "returned", !.result = Str(<<"{", "}">>),
                                !.requests = Append(@, outcome)]
                ELSE IF outcome \in {"429", "503"}
                THEN [gm EXCEPT !.pc = "wait", !.waits = Append(@, gm.delay),
                                !.requests = Append(@, outcome)]
                ELSE IF gm.i = 4
                THEN [gm EXCEPT !.pc = "threw",
                                !.result =
                                    IF outcome = "ok"
                                    THEN Thrown("Invalid response structure from API.")
                                    ELSE IF outcome = "400"
                                    THEN Thrown("API Error: 400")
                                    ELSE Thrown("Failed to fetch"),
                                !.requests = Append(@, outcome)]
                ELSE [gm EXCEPT !.pc = "wait", !.waits = Append(@, gm.delay),
                                !.requests = Append(@, outcome)]
    /\ UNCHANGED <<pv, af, ap, hl, pw, sp, aw, appVars>>

\* Variant: the loop allows a sixth request.
timerFires_six ==
    /\ gm.pc = "wait"
    /\ gm' = IF gm.i + 1 < 6
             THEN [gm EXCEPT !.pc = "loop", !.i = @ + 1, !.delay = @ * 2]
             ELSE [gm EXCEPT !.pc = "threw", !.i = @ + 1, !.delay = @ * 2,
                             !.result = Thrown("Failed to get response from API after retries.")]
    /\ UNCHANGED <<pv, af, ap, hl, pw, sp, aw, appVars>>

\* setTimeout fires: delay *= 2, i++, and the loop test; the throw after
\* the loop when it fails
timerFires ==
    /\ gm.pc = "wait"
    /\ gm' = IF gm.i + 1 < 5
             THEN [gm EXCEPT !.pc = "loop", !.i = @ + 1, !.delay = @ * 2]
             ELSE [gm EXCEPT !.pc = "threw", !.i = @ + 1, !.delay = @ * 2,
                             !.result = Thrown("Failed to get response from API after retries.")]
    /\ UNCHANGED <<pv, af, ap, hl, pw, sp, aw, appVars>>

InitGemini ==
    /\ gm = [pc |-> "loop", i |-> 0, delay |-> 1000, requests |-> <<>>,
             waits |-> <<>>, result |-> Null]
    /\ pv = Idle /\ af = Idle /\ ap = Idle /\ hl = Idle /\ pw = Idle
    /\ sp = Idle /\ aw = Idle /\ AppIdle
NextGemini == callFetch \/ fetchSettles \/ timerFires

\* every fetch settles and every timeout fires
SpecGeminiLive == InitGemini /\ [][NextGemini]_vars /\ WF_vars(NextGemini)

(***************************************************************************)
(* Properties of the value projector (checked under SpecProject).          *)
(***************************************************************************)
PvMult == Default(pv.userMultiplier, R(1))
PvFactor == Default(pv.adaptiveFactor, R(1))
PvPercentage == pv.strategy = Percentage

\* C1 - Week-1 identity: a projection at week 1 returns the base value,
\* whatever the increment, the multiplier, the strategy and the factor.
C1_WeekOneIdentity ==
    (pv.pc = "done" /\ pv.weekNumber = 1) => pv.result = pv.baseValue

C1_Witness ==
    /\ pv.pc = "done" /\ pv.weekNumber = 1
    /\ pv.strategy = Percentage /\ pv.increment = R(5)
    /\ pv.userMultiplier = R(2) /\ pv.adaptiveFactor = Q(11, 10)
    /\ pv.baseValue = R(80)

\* C2 - Linear projection: with the linear strategy the result is
\* baseValue + increment * (N-1) * userMultiplier * adaptiveFactor (stated on
\* the numerators and denominators), and with multiplier 1 and factor 1 it is
\* baseValue + increment * (N-1).
C2_LinearProjection ==
    (pv.pc = "done" /\ ~PvPercentage) =>
        LET v == pv.baseValue
            i == pv.increment
            m == PvMult
            f == PvFactor
            n == pv.weekNumber
            den == i.d * m.d * f.d
        IN  /\ pv.result.n * v.d * den
                 = pv.result.d * (v.n * den + v.d * i.n * (n - 1) * m.n * f.n)
            /\ (m = R(1) /\ f = R(1) /\ i.d = 1 /\ v.d = 1)
                 => pv.result = R(v.n + i.n * (n - 1))

C2_Witness ==
    /\ pv.pc = "done" /\ pv.strategy = Linear /\ pv.weekNumber = 3
    /\ pv.baseValue = R(80) /\ pv.increment = Q(5, 2)
    /\ pv.userMultiplier = R(2) /\ pv.adaptiveFactor = Q(19, 20)
    /\ pv.result = Q(179, 2)

\* Bounds of x^k for x = a/b, in PowScale units, rounding down and rounding up.
RECURSIVE PowLower(_, _, _)
PowLower(a, b, k) == IF k = 0 THEN PowScale ELSE (PowLower(a, b, k - 1) * a) \div b

RECURSIVE PowUpper(_, _, _)
PowUpper(a, b, k) == IF k = 0 THEN PowScale ELSE (PowUpper(a, b, k - 1) * a + b - 1) \div b

\* C3 - Percentage projection: with the percentage strategy the result is
\* baseValue * (1 + increment/100) ^ ((N-1) * userMultiplier * adaptiveFactor):
\* it lies between the base value times the powers of the floor and of the
\* ceiling of that exponent, it is the base value times the rate when the
\* exponent is 1, and base v, increment 5, week 3, multiplier 1, factor 1
\* gives v * 1.05^2 = v * 441/400.
C3_PercentageProjection ==
    (pv.pc = "done" /\ PvPercentage) =>
        LET v == pv.baseValue
            x == Norm(100 * pv.increment.d + pv.increment.n, 100 * pv.increment.d)
            e == Norm((pv.weekNumber - 1) * PvMult.n * PvFactor.n, PvMult.d * PvFactor.d)
            lo == e.n \div e.d
            hi == (e.n + e.d - 1) \div e.d
        IN  /\ pv.result.n * PowScale >= pv.result.d * v.n * PowLower(x.n, x.d, lo)
            /\ pv.result.n * PowScale <= pv.result.d * v.n * PowUpper(x.n, x.d, hi)
            /\ e = R(1) => pv.result.n * x.d = pv.result.d * v.n * x.n
            /\ (pv.increment = R(5) /\ pv.weekNumber = 3 /\ PvMult = R(1) /\ PvFactor = R(1))
                 => pv.result.n * 400 = pv.result.d * v.n * 441

C3_Witness ==
    /\ pv.pc = "done" /\ pv.strategy = Percentage /\ pv.weekNumber = 3
    /\ pv.baseValue = R(80) /\ pv.increment = R(5)
    /\ pv.userMultiplier = R(1) /\ pv.adaptiveFactor = R(1)
    /\ pv.result = Q(441, 5)

C3_WitnessFractional ==
    /\ pv.pc = "done" /\ pv.strategy = Percentage /\ pv.weekNumber = 3
    /\ pv.baseValue = R(80) /\ pv.increment = R(5)
    /\ pv.userMultiplier = R(1) /\ pv.adaptiveFactor = Q(11, 10)
    /\ pv.result # Q(441, 5)

(***************************************************************************)
(* Properties of the adherence analyzer (checked under SpecAdaptive).      *)
(***************************************************************************)
\* The number of entries of h whose weekNumber w satisfies cw - 3 <= w < cw.
QualifyingCount(h, cw) ==
    Cardinality({i \in 1..Len(h) :
        /\ "weekNumber" \in DOMAIN h[i]
        /\ h[i].weekNumber.d = 1
        /\ cw - 3 <= h[i].weekNumber.n
        /\ h[i].weekNumber.n < cw})

ExpectedCount(cw) == (IF cw - 1 < 3 THEN cw - 1 ELSE 3) * 4

\* C4 - Adherence tier mapping: with at least 3 qualifying entries the factor
\* is 1.1 when rate >= 0.9, else 1.0 when rate >= 0.7, else 0.95 when
\* rate >= 0.5, else 0.9, where rate = qualifyingCount / (min(3, cw-1) * 4);
\* the boundary rates belong to the higher tier.
C4_TierMapping ==
    LET c == QualifyingCount(af.history, af.currentWeek)
        e == ExpectedCount(af.currentWeek)
    IN  (af.pc = "done" /\ c >= 3 /\ e > 0) =>
          /\ (10 * c >= 9 * e) => af.result = Q(11, 10)
          /\ (10 * c < 9 * e /\ 10 * c >= 7 * e) => af.result = R(1)
          /\ (10 * c < 7 * e /\ 2 * c >= e) => af.result = Q(19, 20)
          /\ (2 * c < e) => af.result = Q(9, 10)

\* a rate of exactly 0.5: 4 qualifying entries out of the 8 expected at week 3
C4_Witness ==
    /\ af.pc = "done" /\ af.currentWeek = 3
    /\ QualifyingCount(af.history, af.currentWeek) = 4
    /\ Len(af.history) = 6
    /\ af.result = Q(19, 20)

\* C5 - Insufficient-data default: with 0, 1 or 2 qualifying entries the
\* factor is 1.0.
C5_InsufficientData ==
    (af.pc = "done" /\ QualifyingCount(af.history, af.currentWeek) <= 2)
        => af.result = R(1)

C5_Witness ==
    /\ af.pc = "done" /\ af.currentWeek = 3
    /\ QualifyingCount(af.history, af.currentWeek) = 2
    /\ Len(af.history) = 5
    /\ af.result = R(1)

\* The histories compared with the analyzed one: its contiguous slices.
Slices(h) == {SubSeq(h, i, j) : i \in 1..(Len(h) + 1), j \in 0..Len(h)}

\* C7 (as stated) - Monotonic adherence tiers: for a fixed currentWeek, a
\* history with a completion rate at least that of another history gets a
\* factor at least as large.
C7_MonotonicAllHistories ==
    (af.pc = "done" /\ ExpectedCount(af.currentWeek) > 0) =>
        \A b \in Slices(af.history) :
            LET ca == QualifyingCount(af.history, af.currentWeek)
                cb == QualifyingCount(b, af.currentWeek)
                fb == calculateAdaptiveFactor(b, af.currentWeek)
            IN  /\ ca >= cb => RGe(af.result, fb)
                /\ cb >= ca => RGe(fb, af.result)

\* C7 (amended) - Monotonic adherence tiers among histories with enough
\* data: for a fixed currentWeek and two histories with at least 3 qualifying
\* entries each, the one with the larger or equal completion rate gets a
\* factor at least as large.
C7_MonotonicTiers ==
    (af.pc = "done" /\ ExpectedCount(af.currentWeek) > 0) =>
        \A b \in Slices(af.history) :
            LET ca == QualifyingCount(af.history, af.currentWeek)
                cb == QualifyingCount(b, af.currentWeek)
                fb == calculateAdaptiveFactor(b, af.currentWeek)
            IN  (ca >= 3 /\ cb >= 3) =>
                  /\ ca >= cb => RGe(af.result, fb)
                  /\ cb >= ca => RGe(fb, af.result)

\* a history of 8 qualifying entries at week 3 (factor 1.1), whose slices
\* have 3 to 8 qualifying entries and cover the four tiers
C7_Witness ==
    /\ af.pc = "done" /\ af.currentWeek = 3
    /\ QualifyingCount(af.history, af.currentWeek) = 8
    /\ af.result = Q(11, 10)
    /\ {calculateAdaptiveFactor(b, af.currentWeek) :
          b \in {x \in Slices(af.history) : QualifyingCount(x, af.currentWeek) >= 3}}
         = {Q(9, 10), Q(19, 20), R(1), Q(11, 10)}

(***************************************************************************)
(* Properties of the detail projector (checked under SpecApply).           *)
(***************************************************************************)
Threw(r) == DOMAIN r = {"throw"}
ProgressableFields == {"sets", "reps", "weight", "duration"}

\* C10 - Frame of applyProgression: the result has exactly the field names of
\* the baseline, and every field other than sets, reps, weight and duration
\* has the baseline's value.
C10_Frame ==
    (ap.pc = "done" /\ ~Threw(ap.result)) =>
        /\ DOMAIN ap.result = DOMAIN ap.baselineDetails
        /\ \A k \in DOMAIN ap.baselineDetails \ ProgressableFields :
              ap.result[k] = ap.baselineDetails[k]

\* a projection that rewrites sets, reps and weight next to rest, description
\* and an unknown field
C10_Witness ==
    /\ ap.pc = "done" /\ ap.currentWeek = 3 /\ ~Threw(ap.result)
    /\ DOMAIN ap.baselineDetails
         = {"sets", "reps", "weight", "rest", "description", "tempo"}
    /\ ap.result.sets # ap.baselineDetails.sets
    /\ ap.result.reps = Str(<<"1", "2">>)
    /\ ap.result.weight = Str(<<"8", "2", ".", "5", "k", "g">>)
    /\ ap.result.tempo = Tempo /\ ap.result.rest = R(60)

(***************************************************************************)
(* Properties of the listener and analyzer together (SpecListener).        *)
(***************************************************************************)
\* document i of the collection belongs to the active profile, has a
\* confirmed completedAt, and a weekNumber w with cw - 3 <= w < cw
Contributing(docs, i, cw) ==
    /\ "profileId" \in DOMAIN docs[i] /\ docs[i].profileId = Profile1
    /\ "completedAt" \in DOMAIN docs[i] /\ DOMAIN docs[i].completedAt = {"ts"}
    /\ "weekNumber" \in DOMAIN docs[i]
    /\ cw - 3 <= docs[i].weekNumber.n /\ docs[i].weekNumber.n < cw

Without(docs, i) == SubSeq(docs, 1, i - 1) \o SubSeq(docs, i + 1, Len(docs))

\* C6 - Adherence window: an entry is counted exactly when its weekNumber w
\* satisfies currentWeek - 3 <= w < currentWeek; documents without a
\* weekNumber or without a completedAt are never counted; removing a document
\* that is not counted leaves the factor unchanged, removing a counted one
\* lowers the count by one.
C6_AdherenceWindow ==
    hl.pc = "done" =>
        LET recent == recentWorkouts(hl.history, hl.currentWeek)
        IN  /\ {recent[j].id : j \in 1..Len(recent)}
                 = {i \in 1..Len(hl.docs) : Contributing(hl.docs, i, hl.currentWeek)}
            /\ Len(recent) = Cardinality({recent[j].id : j \in 1..Len(recent)})
            /\ \A i \in 1..Len(hl.docs) :
                 LET rest == historyListener(Without(hl.docs, i), Profile1)
                 IN  IF Contributing(hl.docs, i, hl.currentWeek)
                     THEN Len(recentWorkouts(rest, hl.currentWeek)) = Len(recent) - 1
                     ELSE calculateAdaptiveFactor(rest, hl.currentWeek) = hl.result

\* three counted documents at week 3 (factor 0.9) next to a document of week 2
\* whose completedAt is still pending
C6_Witness ==
    /\ hl.pc = "done" /\ hl.currentWeek = 3 /\ Len(hl.docs) = 4
    /\ Cardinality({i \in 1..4 : Contributing(hl.docs, i, 3)}) = 3
    /\ \E i \in 1..4 : /\ Get(hl.docs[i], "completedAt") = Null
                       /\ Get(hl.docs[i], "weekNumber") = R(2)
    /\ hl.result = Q(9, 10)

(***************************************************************************)
(* The dashboard.                                                          *)
(***************************************************************************)
\* weeks elapsed between the creation of the plan and time t
WeeksSinceStart(t) == (Abs(t - plan.createdAt.date) \div DayLength) \div 7

\* the dashboard is shown and has rendered since the last change of the
\* clock and of the history
DashboardUpToDate ==
    /\ currentView = "dashboard"
    /\ memo # RenderError
    /\ memo.currentPlanWeek = currentPlanWeekOf(plan.createdAt, now, plan.durationWeeks)
    /\ memo.todayDayName = getTodayDayName(now)

AnalyzerOn ==
    /\ "progressionSettings" \in DOMAIN plan
    /\ "adaptiveEnabled" \in DOMAIN plan.progressionSettings
    /\ plan.progressionSettings.adaptiveEnabled = TRUE

\* C8 - Last three weeks: on an up-to-date dashboard of a plan with the
\* analyzer on, an entry of the history is counted for the adaptive factor
\* exactly when it was logged during one of the three weeks that precede the
\* current week, also after the week number has wrapped back to 1.
C8_LastThreeWeeks ==
    (DashboardUpToDate /\ AnalyzerOn) =>
        \A i \in 1..Len(history) :
            InWindow(history[i], memo.currentPlanWeek)
              <=> LET logged == WeeksSinceStart(history[i].completedAt.date)
                      current == WeeksSinceStart(now)
                  IN  current - 3 <= logged /\ logged < current

\* C9 - adaptiveEnabled toggles the analyzer: the factor of the dashboard is
\* 1.0 for every history when adaptiveEnabled is false or absent, and
\* calculateAdaptiveFactor(history, currentWeek) when it is true; the week is
\* materialized with that factor.
C9_AdaptiveToggle ==
    (currentView = "dashboard" /\ memo # RenderError) =>
        LET factor == IF AnalyzerOn
                      THEN calculateAdaptiveFactor(history, memo.currentPlanWeek)
                      ELSE R(1)
        IN  /\ memo.adaptiveFactor = factor
            /\ \A i \in 1..Len(plan.baseWeek.days) :
                 \A j \in 1..Len(plan.baseWeek.days[i].exercises) :
                    LET ex == plan.baseWeek.days[i].exercises[j]
                    IN  memo.currentWeekData.days[i].exercises[j].details
                          = applyProgression(
                                IF "baselineDetails" \in DOMAIN ex
                                THEN ex.baselineDetails ELSE ex.details,
                                memo.currentPlanWeek, settingsOf(plan), factor)

\* week 2 of a plan with the analyzer on, all four workouts of week 1 logged:
\* the factor is 1.1 and the squat is materialized at 82.8kg instead of 82.5kg
C9_Witness ==
    /\ currentView = "dashboard" /\ memo # RenderError
    /\ AnalyzerOn
    /\ memo.currentPlanWeek = 2
    /\ Len(recentWorkouts(history, 2)) = 4
    /\ memo.adaptiveFactor = Q(11, 10)
    /\ memo.currentWeekData.days[1].exercises[1].details.weight
         = [s |-> <<"8", "2", ".", "8", "k", "g">>]

\* C11 - The engine is read-only over its inputs: no step of the application,
\* however often the dashboard recomputes the week, changes the plan (its
\* baseWeek, the baselineDetails of its exercises, its progressionSettings),
\* and the history changes only when the listener delivers a snapshot, and
\* then to what the listener builds from the collection.
C11_ReadOnlyInputs ==
    [][/\ plan' = plan
       /\ history' # history => history' = historyListener(store, activeProfileId)]_vars

\* the dashboard has recomputed week 2 with values that differ from the
\* baseline, after a snapshot has replaced the history
C11_Witness ==
    /\ currentView = "dashboard" /\ memo # RenderError
    /\ memo.currentPlanWeek = 2
    /\ Len(history) = 4
    /\ plan.baseWeek = BaseWeek
    /\ memo.currentWeekData.days[1].exercises[1].details.weight
         # plan.baseWeek.days[1].exercises[1].baselineDetails.weight

(***************************************************************************)
(* Fields of the result of applyProgression.                               *)
(***************************************************************************)
\* the increment of a field is set: a number other than zero
IncrementSet(settings, field) ==
    /\ "increments" \in DOMAIN settings
    /\ field \in DOMAIN settings.increments
    /\ IsNum(settings.increments[field])
    /\ settings.increments[field] # R(0)

\* the value calculateProgressiveValue gives to a number of the baseline
ProjectedValue(base, field) ==
    calculateProgressiveValue(base, ap.currentWeek,
                              ap.progressionSettings.increments[field],
                              Get(ap.progressionSettings, "userMultiplier"),
                              Get(ap.progressionSettings, "strategy"),
                              ap.adaptiveFactor)

\* k is v rounded to the nearest integer, a half rounding up
NearestInteger(k, v) ==
    /\ IsNum(k) /\ k.d = 1
    /\ RLe(R(2 * k.n - 1), RMul(R(2), v))
    /\ RLt(RMul(R(2), v), R(2 * k.n + 1))

\* C12 - sets and duration: the field of the result is the baseline's value
\* unless the baseline's value is a number and the increment of the field is
\* set; then it is calculateProgressiveValue of the baseline's value rounded
\* to the nearest integer.
C12_SetsAndDuration ==
    (ap.pc = "done" /\ ~Threw(ap.result)) =>
        \A field \in {"sets", "duration"} \cap DOMAIN ap.baselineDetails :
            IF IsNum(ap.baselineDetails[field]) /\ IncrementSet(ap.progressionSettings, field)
            THEN NearestInteger(ap.result[field],
                                ProjectedValue(ap.baselineDetails[field], field))
            ELSE ap.result[field] = ap.baselineDetails[field]

\* 3 sets at week 2, increment 1, multiplier 0.5: 3.5 is rounded to 4
C12_Witness ==
    /\ ap.pc = "done" /\ ~Threw(ap.result)
    /\ ap.currentWeek = 2
    /\ Get(ap.baselineDetails, "sets") = R(3)
    /\ IncrementSet(ap.progressionSettings, "sets")
    /\ ProjectedValue(R(3), "sets") = Q(7, 2)
    /\ ap.result.sets = R(4)

\* the length of the numeral (digits and a fraction) that cs starts with
LeadingNumeral(cs) ==
    LET ni == DigitRun(cs, 1)
        nf == IF ni < Len(cs) /\ cs[ni + 1] = "." THEN DigitRun(cs, ni + 2) ELSE 0
    IN  IF nf > 0 THEN ni + 1 + nf ELSE ni

\* reps of the baseline is a string made of a number and a suffix without digits
RepsWithUnit ==
    /\ "reps" \in DOMAIN ap.baselineDetails
    /\ IsStr(ap.baselineDetails.reps)
    /\ LET cs == ap.baselineDetails.reps.s
       IN  /\ 0 < LeadingNumeral(cs) /\ LeadingNumeral(cs) < Len(cs)
           /\ \A i \in (LeadingNumeral(cs) + 1)..Len(cs) : ~IsDigit(cs[i])

RepsSuffix ==
    LET cs == ap.baselineDetails.reps.s
    IN  SubSeq(cs, LeadingNumeral(cs) + 1, Len(cs))

RepsNumber ==
    LET cs == ap.baselineDetails.reps.s
    IN  ParseDecimalAt(SubSeq(cs, 1, LeadingNumeral(cs)), 1)

\* C13 - Unit preservation for reps: a baseline reps made of a number and a
\* non-numeric suffix comes back as the rounded projected number followed by
\* that suffix, character for character; "10s" with the linear increment 2,
\* multiplier 1 and factor 1 comes back as "12s" at week 3.
C13_RepsUnitPreserved ==
    (ap.pc = "done" /\ ~Threw(ap.result) /\ RepsWithUnit
       /\ IncrementSet(ap.progressionSettings, "reps")) =>
        /\ \E k \in 0..200 :
              /\ NearestInteger(R(k), ProjectedValue(RepsNumber, "reps"))
              /\ ap.result.reps = Str(IntToChars(k) \o RepsSuffix)
        /\ (/\ ap.baselineDetails.reps = TenS
            /\ ap.currentWeek = 3
            /\ Get(ap.progressionSettings, "strategy") = Linear
            /\ ap.progressionSettings.increments.reps = R(2)
            /\ Get(ap.progressionSettings, "userMultiplier") = R(1)
            /\ ap.adaptiveFactor \in {Undefined, R(1)})
           => ap.result.reps = Str(<<"1", "2", "s">>)

\* cs[i..j] is an optionally signed, optionally decimal number
SignedNumeral(cs, i, j) ==
    LET b == IF cs[i] \in {"+", "-"} THEN i + 1 ELSE i
    IN  /\ b <= j /\ j <= Len(cs)
        /\ IsDigit(cs[b]) /\ IsDigit(cs[j])
        /\ \A k \in b..j : IsDigit(cs[k]) \/ cs[k] = "."
        /\ Cardinality({k \in b..j : cs[k] = "."}) <= 1

\* cs[i..j] is the first numeral of cs, taken as long as possible
FirstNumeral(cs, i, j) ==
    /\ SignedNumeral(cs, i, j)
    /\ \A l \in 1..(i - 1) : \A m \in l..Len(cs) : ~SignedNumeral(cs, l, m)
    /\ \A m \in (j + 1)..Len(cs) : ~SignedNumeral(cs, i, m)

\* chars is the number v >= 0 written with one decimal place
OneDecimal(chars, v) ==
    \E t \in 0..5000 :
        /\ RLt(RSub(RMul(R(10), v), Q(1, 2)), R(t))
        /\ RLe(R(t), RAdd(RMul(R(10), v), Q(1, 2)))
        /\ chars = NatToChars(t \div 10) \o <<".">> \o NatToChars(t % 10)

WeightWithNumeral ==
    /\ "weight" \in DOMAIN ap.baselineDetails
    /\ IsStr(ap.baselineDetails.weight)
    /\ \E i \in 1..Len(ap.baselineDetails.weight.s) :
          \E j \in i..Len(ap.baselineDetails.weight.s) :
             SignedNumeral(ap.baselineDetails.weight.s, i, j)

\* C14 - Embedded-numeral weight update: a weight string that contains a
\* numeral comes back with its first numeral replaced by the projected
\* magnitude written with one decimal place and with the text before and
\* after the numeral unchanged; "80kg" with the linear increment 2.5 comes
\* back as "85.0kg" at week 3.
C14_WeightNumeralUpdated ==
    (ap.pc = "done" /\ ~Threw(ap.result) /\ WeightWithNumeral
       /\ IncrementSet(ap.progressionSettings, "weight")) =>
        LET cs == ap.baselineDetails.weight.s
            out == ap.result.weight
        IN  /\ IsStr(out)
            /\ \E i \in 1..Len(cs) : \E j \in i..Len(cs) :
                  /\ FirstNumeral(cs, i, j)
                  /\ \E n \in 1..Len(out.s) :
                        /\ out.s = SubSeq(cs, 1, i - 1) \o SubSeq(out.s, i, i + n - 1)
                                     \o SubSeq(cs, j + 1, Len(cs))
                        /\ OneDecimal(SubSeq(out.s, i, i + n - 1),
                                      ProjectedValue(ParseDecimalAt(cs, i), "weight"))
            /\ (/\ ap.baselineDetails.weight = Kg80
                /\ ap.currentWeek = 3
                /\ Get(ap.progressionSettings, "strategy") = Linear
                /\ ap.progressionSettings.increments.weight = Q(5, 2)
                /\ Get(ap.progressionSettings, "userMultiplier") = R(1)
                /\ ap.adaptiveFactor \in {Undefined, R(1)})
               => out = Str(<<"8", "5", ".", "0", "k", "g">>)

\* "70% 1RM" at week 2 with the linear increment 2.5 and the factor 0.9:
\* 72.25 is written "72.3" in front of the unchanged "% 1RM"
C14_Witness ==
    /\ ap.pc = "done" /\ ~Threw(ap.result)
    /\ Get(ap.baselineDetails, "weight") = Str(<<"7", "0", "%", " ", "1", "R", "M">>)
    /\ ap.currentWeek = 2
    /\ IncrementSet(ap.progressionSettings, "weight")
    /\ ProjectedValue(R(70), "weight") = Q(289, 4)
    /\ ap.result.weight = Str(<<"7", "2", ".", "3", "%", " ", "1", "R", "M">>)

\* cs does not start with a number: after leading blanks there is no digit,
\* also not behind a sign or a decimal point
NoLeadingNumber(cs) ==
    LET rest == SubSeq(cs, SkipSpaces(cs, 1), Len(cs))
        unsigned == IF Len(rest) > 0 /\ rest[1] \in {"+", "-"}
                    THEN SubSeq(rest, 2, Len(rest)) ELSE rest
    IN  ~ \/ Len(unsigned) > 0 /\ IsDigit(unsigned[1])
          \/ Len(unsigned) > 1 /\ unsigned[1] = "." /\ IsDigit(unsigned[2])

\* C15 - Malformed-field pass-through: at every week and under every
\* settings, a weight string without any digit and a reps string that does
\* not start with a number are in the result exactly as in the baseline.
C15_MalformedPassThrough ==
    (ap.pc = "done" /\ ~Threw(ap.result)) =>
        /\ ("weight" \in DOMAIN ap.baselineDetails
              /\ IsStr(ap.baselineDetails.weight)
              /\ \A i \in 1..Len(ap.baselineDetails.weight.s) :
                    ~IsDigit(ap.baselineDetails.weight.s[i]))
           => ap.result.weight = ap.baselineDetails.weight
        /\ ("reps" \in DOMAIN ap.baselineDetails
              /\ IsStr(ap.baselineDetails.reps)
              /\ NoLeadingNumber(ap.baselineDetails.reps.s))
           => ap.result.reps = ap.baselineDetails.reps

\* "Bodyweight" comes back unchanged at week 3 while the reps "10s" of the
\* same exercise are progressed
C15_Witness ==
    /\ ap.pc = "done" /\ ~Threw(ap.result)
    /\ ap.currentWeek = 3
    /\ Get(ap.baselineDetails, "weight") = Bodyweight
    /\ IncrementSet(ap.progressionSettings, "weight")
    /\ ap.result.weight = Bodyweight
    /\ ap.result.reps # ap.baselineDetails.reps

\* C16 - Graceful increments: applyProgression raises under no settings; a
\* field whose increment is absent or zero, also because the settings carry
\* no increments at all, is returned as in the baseline.
C16_NeverRaises ==
    ap.pc = "done" =>
        IF Threw(ap.result) THEN FALSE
        ELSE \A field \in ProgressableFields \cap DOMAIN ap.baselineDetails :
                ~IncrementSet(ap.progressionSettings, field)
                  => ap.result[field] = ap.baselineDetails[field]

(***************************************************************************)
(* The materialized week of the dashboard.                                 *)
(***************************************************************************)
\* the baseline of an exercise of the plan
BaselineOf(ex) == IF "baselineDetails" \in DOMAIN ex THEN ex.baselineDetails ELSE ex.details

\* C17 - Week materialization preserves structure: the materialized week has
\* the days of baseWeek in their order with day and focus copied; every day
\* has its exercises in their order with name and type copied and details
\* computed from the exercise's own baseline, so that exercises with the same
\* baseline have the same details; a day without exercises has none in the
\* materialized week.
C17_StructurePreserved ==
    memo # RenderError =>
        LET base == plan.baseWeek.days
            week == memo.currentWeekData.days
            factor == memo.adaptiveFactor
        IN  /\ Len(week) = Len(base)
            /\ \A i \in 1..Len(base) :
                  /\ week[i].day = base[i].day
                  /\ week[i].focus = base[i].focus
                  /\ Len(week[i].exercises) = Len(base[i].exercises)
                  /\ \A j \in 1..Len(base[i].exercises) :
                        /\ week[i].exercises[j].name = base[i].exercises[j].name
                        /\ week[i].exercises[j].type = base[i].exercises[j].type
                        /\ week[i].exercises[j].details
                             = applyProgression(BaselineOf(base[i].exercises[j]),
                                                memo.currentPlanWeek, settingsOf(plan), factor)
                        /\ \A k \in 1..Len(base) : \A l \in 1..Len(base[k].exercises) :
                              BaselineOf(base[k].exercises[l]) = BaselineOf(base[i].exercises[j])
                                => week[k].exercises[l].details = week[i].exercises[j].details

\* week 2 on the dashboard: Tuesday has its two exercises progressed in
\* order, Wednesday is a rest day without exercises
C17_Witness ==
    /\ currentView = "dashboard" /\ memo # RenderError
    /\ memo.currentPlanWeek = 2
    /\ Len(memo.currentWeekData.days[2].exercises) = 2
    /\ memo.currentWeekData.days[2].exercises[1].name = Atom("Plank")
    /\ memo.currentWeekData.days[2].exercises[1].details
         # plan.baseWeek.days[2].exercises[1].baselineDetails
    /\ plan.baseWeek.days[3].exercises = <<>>
    /\ memo.currentWeekData.days[3].exercises = <<>>

\* the exercises of the plan, by day and position
ExercisePositions ==
    {<<i, j>> \in (1..Len(plan.baseWeek.days)) \X (1..2) :
        j <= Len(plan.baseWeek.days[i].exercises)}

\* C18 (as stated) - every materialized exercise has a details record and no
\* baselineDetails field.
C18_DetailsReplaceBaseline ==
    memo # RenderError =>
        \A pos \in ExercisePositions :
            LET mex == memo.currentWeekData.days[pos[1]].exercises[pos[2]]
            IN  /\ "details" \in DOMAIN mex
                /\ "baselineDetails" \notin DOMAIN mex

\* C18 - every materialized exercise has all the fields of its template with
\* their values, baselineDetails included, and a details field holding the
\* values projected for the week.
C18_DetailsAdded ==
    memo # RenderError =>
        \A pos \in ExercisePositions :
            LET ex == plan.baseWeek.days[pos[1]].exercises[pos[2]]
                mex == memo.currentWeekData.days[pos[1]].exercises[pos[2]]
            IN  /\ DOMAIN mex = DOMAIN ex \cup {"details"}
                /\ \A k \in DOMAIN ex \ {"details"} : mex[k] = ex[k]
                /\ mex.details = applyProgression(BaselineOf(ex), memo.currentPlanWeek,
                                                  settingsOf(plan), memo.adaptiveFactor)

\* week 2: the squat of Monday carries its baselineDetails of week 1 next to
\* details that differ from them
C18_Witness ==
    /\ currentView = "dashboard" /\ memo # RenderError
    /\ memo.currentPlanWeek = 2
    /\ memo.currentWeekData.days[1].exercises[1].baselineDetails = ExSquat.baselineDetails
    /\ memo.currentWeekData.days[1].exercises[1].details # ExSquat.baselineDetails

C20_WeekInRange ==
    pw.pc = "done" =>
        /\ pw.result \in 1..pw.durationWeeks
        /\ \E days \in 0..(MaxClock + 100) : \E weeks \in 0..MaxClock :
              /\ days * DayLength <= Abs(pw.today - pw.createdAt.date)
              /\ Abs(pw.today - pw.createdAt.date) < (days + 1) * DayLength
              /\ 7 * weeks <= days /\ days < 7 * (weeks + 1)
              /\ \E cycles \in 0..MaxClock :
                    weeks = cycles * pw.durationWeeks + (pw.result - 1)

\* now is two weeks and half a day before createdAt in a plan of 2 weeks:
\* the week has wrapped back to 1
C20_Witness ==
    /\ pw.pc = "done"
    /\ pw.durationWeeks = 2
    /\ pw.createdAt.date - pw.today = 14 * DayLength + 1
    /\ pw.result = 1

\* the whole days between createdAt and now
DaysSinceStart == Abs(pw.today - pw.createdAt.date) \div DayLength

\* C21 (as stated) - Wraparound schedule: with durationWeeks = 12 the week at
\* daysSinceStart = 83 is 1.
C21_WrapAtDay83 ==
    (pw.pc = "done" /\ pw.durationWeeks = 12 /\ DaysSinceStart = 83) => pw.result = 1

\* C21 - Wraparound schedule: with durationWeeks = 12 the week at
\* daysSinceStart = 83 is still 12, and at daysSinceStart = 84 it is 1.
C21_WrapAtDay84 ==
    (pw.pc = "done" /\ pw.durationWeeks = 12) =>
        /\ DaysSinceStart = 83 => pw.result = 12
        /\ DaysSinceStart = 84 => pw.result = 1

\* day 84 and a half of a plan of 12 weeks: week 1 again
C21_Witness ==
    /\ pw.pc = "done" /\ pw.durationWeeks = 12
    /\ pw.today - pw.createdAt.date = 84 * DayLength + 1
    /\ pw.result = 1

(***************************************************************************)
(* Claims about a workout session.                                         *)
(***************************************************************************)
\* the entries the session has stored: the collection held one before it
SessionEntries == {i \in 2..Len(store) : store[i].completedAt # Null}

\* the entries the session has handed to addDoc, stored or not yet
SessionWrites == 2..Len(store)

\* C22 - Exactly one completion entry per workout session: whatever the order
\* of Done, Skip, onComplete callbacks and the resolution of the write, the
\* entry the collection held before the session stays as it was, the session
\* hands at most one entry to the collection, and a session that ended with
\* its write stored has stored exactly one.
C22_OneEntryPerSession ==
    aw.pc # "idle" =>
        /\ Len(store) >= 1 /\ store[1] = LegacyDoc
        /\ Cardinality(SessionWrites) <= 1
        /\ (aw.pc = "closed" /\ isCompleting /\ ~inFlight) => Cardinality(SessionEntries) = 1

\* C23 - Logged week number: the weekNumber of an entry handed to the
\* collection is the current week number of the schedule clock at that
\* moment, and so lies in 1..durationWeeks, whatever time has passed since
\* the workout was started.
C23_LoggedWeek ==
    [][Len(store') > Len(store) =>
          /\ store'[Len(store')].weekNumber
               = R(currentPlanWeekOf(plan.createdAt, now, plan.durationWeeks))
          /\ store'[Len(store')].weekNumber.n \in 1..plan.durationWeeks]_vars

\* a plan object as the validation rules describe it
HasSevenDays(planObject) ==
    /\ ~IsNull(planObject) /\ planObject # InvalidJson
    /\ {"planName", "baseWeek", "durationWeeks"} \subseteq DOMAIN planObject
    /\ ~IsNull(planObject.baseWeek)
    /\ "days" \in DOMAIN planObject.baseWeek
    /\ IsArray(planObject.baseWeek.days)
    /\ Len(planObject.baseWeek.days.array) = 7

\* C24 - Plan validation on import: a plan object is handed to setDoc only
\* if it has planName, baseWeek and durationWeeks and baseWeek.days is an
\* array of 7 days; for any other plan object an error is raised, nothing is
\* written and the plan stored before stays as it was.
C24_ValidatedSave ==
    sp.pc \in {"setDoc", "done"} =>
        \/ HasSevenDays(sp.parsed)
        \/ /\ sp.error # Null
           /\ sp.pending = Null
           /\ sp.stored = sp.previous

\* an interval timer is on the screen
TimerShown == shown /\ aw.comp.kind \in TimerKinds

\* the step leaves the interval timer of the same exercise on the screen
SameTimer == TimerShown /\ TimerShown' /\ aw'.currentIndex = aw.currentIndex

\* the step is a reset: set 1, work phase, full duration, stopped
IsReset ==
    /\ aw'.comp.currentSet = 1 /\ ~aw'.comp.isResting /\ ~aw'.comp.isActive
    /\ aw'.comp.timeLeft = currentExercise.details.duration

\* the set number stays within the sets of the exercise
CurrentSetInRange ==
    TimerShown => aw.comp.currentSet \in 1..currentExercise.details.sets

\* the steps of the protocol
IntervalStep ==
    /\ (SameTimer /\ aw'.comp.currentSet # aw.comp.currentSet /\ ~IsReset) =>
          /\ aw'.comp.currentSet = aw.comp.currentSet + 1
          /\ aw.comp.isResting /\ ~aw'.comp.isResting
          /\ aw'.comp.timeLeft = currentExercise.details.duration
    /\ (SameTimer /\ ~aw.comp.isResting /\ aw'.comp.isResting) =>
          /\ aw.comp.currentSet < currentExercise.details.sets
          /\ aw.comp.timeLeft <= 1
          /\ aw'.comp.timeLeft = currentExercise.details.rest
    /\ (SameTimer /\ aw'.comp.isResting = aw.comp.isResting
          /\ aw'.comp.timeLeft # aw.comp.timeLeft /\ ~IsReset) =>
          aw'.comp.timeLeft = aw.comp.timeLeft - 1
    /\ (TimerShown /\ aw'.onCompleteCalls # aw.onCompleteCalls) =>
          /\ ~aw.comp.isResting
          /\ aw.comp.currentSet = currentExercise.details.sets
          /\ aw.comp.timeLeft <= 1

\* C25 - Interval timer protocol: a running timer alternates work phases of
\* duration seconds and rest phases of rest seconds, a rest follows every set
\* but the last, currentSet goes up by exactly 1 when a rest ends,
\* 1 <= currentSet <= sets in every state, and onComplete is called only
\* when the work phase of set number sets runs out.
C25_IntervalProtocol == []CurrentSetInRange /\ [][IntervalStep]_vars

\* C26 - Fresh progress per exercise: whenever ActiveWorkoutView advances to
\* the next exercise, by Done, Skip or an onComplete callback, the component
\* of that exercise holds its own initial progress (completed sets 0;
\* currentSet 1, not resting, not running, timeLeft its own duration), also
\* when the exercise before had the same type.
C26_FreshProgress ==
    [][(shown /\ shown' /\ aw'.currentIndex # aw.currentIndex) =>
          aw'.comp = mounted(componentOf(aw'.version, currentExercise'), currentExercise')]_vars

\* the interval timer on the screen is running
Running == TimerShown /\ aw.comp.isActive

\* the step is a pause: nothing but isActive changes
IsPause == aw' = [aw EXCEPT !.comp.isActive = FALSE]

\* a timer that stops without a pause or a reset has called onComplete once
\* and shows 0
StopsByCompleting ==
    /\ (SameTimer /\ aw.comp.isActive /\ ~aw'.comp.isActive /\ ~IsPause /\ ~IsReset) =>
          /\ aw'.onCompleteCalls = aw.onCompleteCalls + 1
          /\ aw'.comp.timeLeft = 0
    /\ (TimerShown /\ aw'.onCompleteCalls # aw.onCompleteCalls) =>
          /\ aw.comp.isActive
          /\ aw'.onCompleteCalls = aw.onCompleteCalls + 1
          /\ TimerShown' => (~aw'.comp.isActive /\ aw'.comp.timeLeft = 0)

FactorKept ==
    RGe(calculateAdaptiveFactor(af'.history, af'.currentWeek),
        calculateAdaptiveFactor(af.history, af.currentWeek))

\* the step appends one entry to the history
EntryAppended ==
    /\ af.pc = "build" /\ af'.pc = "build"
    /\ Len(af'.history) = Len(af.history) + 1

\* C28 (as stated) - More adherence never slows progression: for a fixed
\* currentWeek, appending one more completion entry to the history never
\* decreases the value returned by calculateAdaptiveFactor.
C28_NeverDecreases == [][EntryAppended => FactorKept]_vars

\* C28 (amended) - for a fixed currentWeek, appending one more completion
\* entry never decreases the value returned by calculateAdaptiveFactor,
\* unless the entry is the third one of the last three weeks: the factor
\* then leaves the neutral 1.0 of a history with too little data.
C28_NeverDecreasesWithData ==
    [][(/\ EntryAppended
        /\ ~(/\ QualifyingCount(af.history, af.currentWeek) = 2
             /\ QualifyingCount(af'.history, af'.currentWeek) = 3)) => FactorKept]_vars

\* a history of 8 entries of the last two weeks at week 3: the entries
\* appended after the third have raised the factor from 0.9 to 1.1
C28_Witness ==
    /\ af.pc = "build" /\ af.currentWeek = 3
    /\ QualifyingCount(af.history, af.currentWeek) = 8
    /\ calculateAdaptiveFactor(SubSeq(af.history, 1, 3), af.currentWeek) = Q(9, 10)
    /\ calculateAdaptiveFactor(af.history, af.currentWeek) = Q(11, 10)

(***************************************************************************)
(* More claims about the detail projector (SpecApply).                     *)
(***************************************************************************)
\* C29 - Week-1 details are the baseline: for every baseline details record,
\* every progression settings and every adaptive factor, applyProgression at
\* week 1 returns a record equal to the baseline field for field, in value
\* and in representation.
C29_WeekOneIsBaseline ==
    (ap.pc = "done" /\ ap.currentWeek = 1) => ap.result = ap.baselineDetails

(***************************************************************************)
(* Claims about callGeminiApi (SpecGeminiLive).                            *)
(***************************************************************************)
GmDone == gm.pc \in {"returned", "threw"}

\* at most 5 requests; the k-th wait is 1000 * 2^(k-1) ms and there is one
\* after every failed request but the one that throws; a return gives the
\* text of the last response, a throw an error
RetryBounds ==
    gm.pc # "idle" =>
        /\ Len(gm.requests) <= 5
        /\ \A k \in 1..Len(gm.waits) : gm.waits[k] = 1000 * (2 ^ (k - 1))
        /\ (gm.pc \in {"loop", "fetch"}) => Len(gm.waits) = Len(gm.requests)
        /\ gm.pc = "returned" =>
              /\ gm.requests[Len(gm.requests)] = "ok, text"
              /\ gm.result = Str(<<"{", "}">>)
        /\ gm.pc = "threw" => DOMAIN gm.result = {"throw"}

\* C30 - Bounded API retry: whatever the outcomes of fetch, callGeminiApi
\* issues at most 5 requests and then terminates, returning the text of a
\* successful response or throwing an error; the wait before the next
\* attempt is 1000 ms at first and doubles after each failed attempt.
C30_BoundedRetry == []RetryBounds /\ <>GmDone

\* the fifth request succeeds after a 429, a 503, a rejected fetch and a
\* response without text
C30_Witness ==
    /\ gm.pc = "returned"
    /\ gm.requests = <<"429", "503", "rejected", "ok", "ok, text">>
    /\ gm.waits = <<1000, 2000, 4000, 8000>>

====
